---------------------------- MODULE Spec2Model ----------------------------
(***************************************************************************)
(* A model of the Bjorn action scheduler (orchestrator.py): the retry      *)
(* state machine of execute_action / execute_standalone_action /           *)
(* _run_vuln_scan_single, the three attack-ordering strategies and the     *)
(* cycle loop of Orchestrator.run.                                         *)
(*                                                                         *)
(* A status string is modelled as the sequence of its '_'-separated        *)
(* fields ("failed_2_20240101_000003" is <<"failed","2","20240101","3">>), *)
(* the empty string as << >>.  Numbers inside a status are strings, as in  *)
(* the code, and are converted with Str / int as the code converts them.   *)
(***************************************************************************)
EXTENDS Integers, Sequences, FiniteSets, TLC

VARIABLES
    attack_order,            \* self.attack_order
    policy,                  \* shared_data retry configuration
    now,                     \* datetime.now(), in clock ticks
    data,                    \* current_data: the in-memory rows
    store,                   \* netkb.csv: the persisted rows
    pc,                      \* position of Orchestrator.run
    pass_no,                 \* 1: first pass of the cycle, 2: re-run after the rescan
    pos,                     \* index of the next slot of the pass
    any_action_executed,     \* the local of the pass procedure
    inflight,                \* the call in progress, or None
    orchestrator_should_exit,\* shared_data.orchestrator_should_exit
    failed_scans_count,      \* self.failed_scans_count
    semaphore,               \* free permits of self.semaphore
    sa_idx,                  \* index into self.standalone_actions
    idle_end_time,           \* idle_end_time of the idle sleep
    passes,                  \* history: passes started so far, capped
    pass_log,                \* history: the executions started in the current cycle
    last_result,             \* history: what the last finished call returned
    streak,                  \* history: consecutive failed executions per pair
    init_status,             \* history: the status the first pair started with
    cmp,                     \* the three runs of the strategy comparison
    nmap,                    \* NmapVulnScanner: where the scan of the call in flight stands
    scan_result,             \* the nmap output handed to the two parsers
    parser,                  \* the locals of parse_vulnerabilities and parse_vulnerability_details
    merge,                   \* the locals of the cross-port merge of scan_vulnerabilities
    summary                  \* the summary file and the locals of its writers

vars == << attack_order, policy, now, data, store, pc, pass_no, pos,
           any_action_executed, inflight, orchestrator_should_exit,
           failed_scans_count, semaphore, sa_idx, idle_end_time, passes,
           pass_log, last_result, streak, init_status, cmp, nmap, scan_result, parser, merge, summary >>

--------------------------------------------------------------------------
(* Bounds of the model *)

MaxPasses == 2        \* passes over the table that are explored
MaxLines == 3         \* lines of a text handed to the parsers
MaxDetails == 3       \* findings handed to the cross-port merge
MaxUpdates == 3       \* calls of update_summary_file

(* Program constants *)

SemaphoreCapacity == 10          \* threading.Semaphore(10)
ScanInterval == 1                \* shared_data.scan_interval, in clock ticks

None == "None"

--------------------------------------------------------------------------
(* Strings and numbers inside a status *)

Digits == << "0", "1", "2", "3", "4", "5", "6", "7", "8", "9" >>

\* str(n) / the %-formatting of an integer
RECURSIVE Str(_)
Str(n) == IF n < 10 THEN Digits[n + 1] ELSE Str(n \div 10) \o Digits[(n % 10) + 1]

\* The date field strftime("%Y%m%d") writes; the model's clock stays within one day.
DateStr == "20240101"
DateInt == (2024 * 10000) + 101

\* The integers whose decimal form occurs in a status of the model: between
\* two passes the clock advances by a scan or a sleep, a count stays below 4.
Parseable == (0 .. ((MaxPasses * (ScanInterval + 1)) + 4)) \cup (DateInt .. (DateInt + 2))

\* int(s): succeeds iff s is the decimal form of an integer; ValueError otherwise
IsInt(s) == \E n \in Parseable : Str(n) = s
IntOf(s) == CHOOSE n \in Parseable : Str(n) = s

\* datetime.now().strftime("%Y%m%d_%H%M%S"): two '_'-separated fields
strftime(t) == << DateStr, Str(t) >>

\* datetime.strptime(d + "_" + t, "%Y%m%d_%H%M%S"): ValueError unless d is a date
\* and t a time of day
strptime_ok(d, t) == d = DateStr /\ IsInt(t) /\ IntOf(t) < DateInt
strptime(d, t) == IntOf(t)

\* 'word' in status, for the words the code looks for
Contains(status, word) == \E i \in DOMAIN status : status[i] = word
ContainsNoCreds(status) ==
    \E i \in DOMAIN status : i + 1 \in DOMAIN status /\ status[i] = "no" /\ status[i + 1] = "creds"

Empty == << >>
SuccessStatus(t) == << "success" >> \o strftime(t)
NoCredsStatus(t) == << "no", "creds" >> \o strftime(t)
FailedStatus(n, t) == << "failed", Str(n) >> \o strftime(t)
LegacyFailedStatus(t) == << "failed" >> \o strftime(t)


--------------------------------------------------------------------------
(* The action registry (load_actions) and the host table the run starts with *)

\* self.actions, in the order of actions.json: port != 0
Actions == <<
    [ action_name |-> "SSHBruteforce", port |-> "22", b_parent_action |-> None ],
    [ action_name |-> "StealFilesSSH", port |-> "22", b_parent_action |-> "SSHBruteforce" ] >>

\* self.standalone_actions: port == 0
StandaloneActions == <<
    [ action_name |-> "LogStandalone", port |-> "0", b_parent_action |-> None ] >>

VulnKey == "NmapVulnScanner"

Keys == { Actions[i].action_name : i \in DOMAIN Actions }
          \cup { StandaloneActions[i].action_name : i \in DOMAIN StandaloneActions }
          \cup { VulnKey }

Results == { "success", "no_creds_found", "failed", "exception" }

Strategies == { "spread", "per_host", "per_phase" }

NoStatus == [ k \in Keys |-> Empty ]

\* The rows the discovery scanner has produced (MAC Address, IPs, Alive, Ports)
HostRows == <<
    [ mac |-> "00:00:00:00:00:05", ip |-> "10.0.0.5", alive |-> "1",
      ports |-> << "22", "80" >>, st |-> NoStatus ],
    [ mac |-> "00:00:00:00:00:06", ip |-> "10.0.0.6", alive |-> "1",
      ports |-> << "22" >>, st |-> NoStatus ] >>

\* The row execute_standalone_action appends when the table has none
StandaloneRow ==
    [ mac |-> "STANDALONE", ip |-> "STANDALONE", alive |-> "0",
      ports |-> << "0" >>, st |-> NoStatus ]

\* self.target_network: the addresses of the configured network
TargetNetwork == { "10.0.0.5", "10.0.0.6" }

\* A check that lets every address through
is_ip_in_target_network_Open(ip) == TRUE

is_ip_in_target_network(ip) == ip \in TargetNetwork

\* The retry configurations the retry policy is checked under
Policies ==
    [ retry_success_actions : BOOLEAN,
      retry_failed_actions : BOOLEAN,
      success_retry_delay : { 0, 1 },
      failed_retry_delay : { 0, 1 },
      max_failed_retries : { 1, 2 } ]

\* The retry configurations the orderings are checked under: retry after a
\* success only, and after a failure only
OrderPolicies ==
    { [ retry_success_actions |-> TRUE, retry_failed_actions |-> FALSE,
        success_retry_delay |-> 1, failed_retry_delay |-> 1, max_failed_retries |-> 1 ],
      [ retry_success_actions |-> FALSE, retry_failed_actions |-> TRUE,
        success_retry_delay |-> 1, failed_retry_delay |-> 1, max_failed_retries |-> 2 ] }

\* Statuses a store written by this or an earlier version can hold for the
\* first action of the first host when the run starts
InitialStatuses == { Empty, LegacyFailedStatus(0) }

InPorts(p, ports) == \E i \in DOMAIN ports : ports[i] = p

--------------------------------------------------------------------------
(* The retry policy: the checks that precede an execution *)

\* The 'success' check without the test of retry_success_actions
SuccessCheck_FlagIgnored(status, t) ==
    IF ~Contains(status, "success") THEN "pass"
    ELSE IF Len(status) < 3 THEN "raise"
    ELSE IF strptime_ok(status[2], status[3])
            /\ t < strptime(status[2], status[3]) + policy.success_retry_delay
         THEN "skip"
    ELSE "pass"

\* execute_action / execute_standalone_action: the 'success' check.
\* "pass": go on to the next check; "skip": return False; "raise": the
\* IndexError of split('_')[1] / [2] is not caught (except ValueError only).
SuccessCheck(status, t) ==
    IF ~Contains(status, "success") THEN "pass"
    ELSE IF ~policy.retry_success_actions THEN "skip"
    ELSE IF Len(status) < 3 THEN "raise"
    ELSE IF strptime_ok(status[2], status[3])
            /\ t < strptime(status[2], status[3]) + policy.success_retry_delay
         THEN "skip"
    ELSE "pass"

\* The 'failed' check with the limit tested by > in place of >=
FailedCheck_OffByOne(status, t) ==
    IF ~Contains(status, "failed") THEN "pass"
    ELSE IF ~policy.retry_failed_actions THEN "skip"
    ELSE IF Len(status) >= 4 /\ IsInt(status[2]) /\ strptime_ok(status[3], status[4])
         THEN IF IntOf(status[2]) > policy.max_failed_retries THEN "skip"
              ELSE IF t < strptime(status[3], status[4]) + policy.failed_retry_delay THEN "skip"
              ELSE "pass"
    ELSE IF Len(status) >= 3 /\ strptime_ok(status[2], status[3])
            /\ t < strptime(status[2], status[3]) + policy.failed_retry_delay
         THEN "skip"
    ELSE "pass"

\* The 'failed' check without the test of retry_failed_actions
FailedCheck_RetryAlways(status, t) ==
    IF ~Contains(status, "failed") THEN "pass"
    ELSE IF Len(status) >= 4 /\ IsInt(status[2]) /\ strptime_ok(status[3], status[4])
         THEN IF IntOf(status[2]) >= policy.max_failed_retries THEN "skip"
              ELSE IF t < strptime(status[3], status[4]) + policy.failed_retry_delay THEN "skip"
              ELSE "pass"
    ELSE IF Len(status) >= 3 /\ strptime_ok(status[2], status[3])
            /\ t < strptime(status[2], status[3]) + policy.failed_retry_delay
         THEN "skip"
    ELSE "pass"

\* The 'failed' check without the test of failed_retry_delay
FailedCheck_NoDelay(status, t) ==
    IF ~Contains(status, "failed") THEN "pass"
    ELSE IF ~policy.retry_failed_actions THEN "skip"
    ELSE IF Len(status) >= 4 /\ IsInt(status[2]) /\ strptime_ok(status[3], status[4])
            /\ IntOf(status[2]) >= policy.max_failed_retries
         THEN "skip"
    ELSE "pass"

\* execute_action / execute_standalone_action: the 'failed' check, with the
\* fallback for the legacy format failed_{timestamp}
FailedCheck(status, t) ==
    IF ~Contains(status, "failed") THEN "pass"
    ELSE IF ~policy.retry_failed_actions THEN "skip"
    ELSE IF Len(status) >= 4 /\ IsInt(status[2]) /\ strptime_ok(status[3], status[4])
         THEN IF IntOf(status[2]) >= policy.max_failed_retries THEN "skip"
              ELSE IF t < strptime(status[3], status[4]) + policy.failed_retry_delay THEN "skip"
              ELSE "pass"
    ELSE IF Len(status) >= 3 /\ strptime_ok(status[2], status[3])
            /\ t < strptime(status[2], status[3]) + policy.failed_retry_delay
         THEN "skip"
    ELSE "pass"

\* execute_action without the 'no_creds' check
ExecuteActionGate_NoCredsRetried(action, row, t) ==
    IF ~is_ip_in_target_network(row.ip) THEN "skip"
    ELSE IF ~InPorts(action.port, row.ports) THEN "skip"
    ELSE IF action.b_parent_action # None
            /\ ~Contains(row.st[action.b_parent_action], "success") THEN "skip"
    ELSE LET action_status == row.st[action.action_name]
             sc == SuccessCheck(action_status, t)
         IN  IF sc # "pass" THEN sc
             ELSE IF FailedCheck(action_status, t) = "skip" THEN "skip"
             ELSE "run"

\* execute_action without the parent check
ExecuteActionGate_NoParentCheck(action, row, t) ==
    IF ~is_ip_in_target_network(row.ip) THEN "skip"
    ELSE IF ~InPorts(action.port, row.ports) THEN "skip"
    ELSE LET action_status == row.st[action.action_name]
             sc == SuccessCheck(action_status, t)
         IN  IF sc # "pass" THEN sc
             ELSE IF ContainsNoCreds(action_status) THEN "skip"
             ELSE IF FailedCheck(action_status, t) = "skip" THEN "skip"
             ELSE "run"

\* execute_action up to the call of action.execute: "run", "skip" (return
\* False) or "raise"
ExecuteActionGate(action, row, t) ==
    IF ~is_ip_in_target_network(row.ip) THEN "skip"
    ELSE IF ~InPorts(action.port, row.ports) THEN "skip"
    ELSE IF action.b_parent_action # None
            /\ ~Contains(row.st[action.b_parent_action], "success") THEN "skip"
    ELSE LET action_status == row.st[action.action_name]
             sc == SuccessCheck(action_status, t)
         IN  IF sc # "pass" THEN sc
             ELSE IF ContainsNoCreds(action_status) THEN "skip"
             ELSE IF FailedCheck(action_status, t) = "skip" THEN "skip"
             ELSE "run"

\* execute_standalone_action up to the call of action.execute
StandaloneGate(action, row, t) ==
    LET action_status == row.st[action.action_name]
        sc == SuccessCheck(action_status, t)
    IN  IF sc # "pass" THEN sc
        ELSE IF ContainsNoCreds(action_status) THEN "skip"
        ELSE IF FailedCheck(action_status, t) = "skip" THEN "skip"
        ELSE "run"

\* _run_vuln_scan_single up to the call of nmap_vuln_scanner.execute: both
\* parses swallow ValueError and IndexError, and there is no legacy fallback
VulnScanGate(row, t) ==
    LET vuln_status == row.st[VulnKey]
    IN  IF ~is_ip_in_target_network(row.ip) THEN "skip"
        ELSE IF Contains(vuln_status, "success")
                /\ ( ~policy.retry_success_actions
                     \/ ( Len(vuln_status) >= 3
                          /\ strptime_ok(vuln_status[2], vuln_status[3])
                          /\ t < strptime(vuln_status[2], vuln_status[3])
                                   + policy.success_retry_delay ) )
             THEN "skip"
        ELSE IF Contains(vuln_status, "failed") /\ ~policy.retry_failed_actions THEN "skip"
        ELSE IF Contains(vuln_status, "failed")
                /\ Len(vuln_status) >= 4 /\ IsInt(vuln_status[2])
                /\ strptime_ok(vuln_status[3], vuln_status[4])
                /\ ( IntOf(vuln_status[2]) >= policy.max_failed_retries
                     \/ t < strptime(vuln_status[3], vuln_status[4])
                              + policy.failed_retry_delay )
             THEN "skip"
        ELSE "run"

\* prev_count of the failure branches: int(prev_status.split('_')[1]), 0 when
\* the status is not a failure or the field is missing or no integer
PrevCount(prev_status) ==
    IF Contains(prev_status, "failed") /\ Len(prev_status) >= 2 /\ IsInt(prev_status[2])
    THEN IntOf(prev_status[2])
    ELSE 0

\* The status execute_action and execute_standalone_action record for a result
OutcomeStatus(result, prev_status, t) ==
    IF result = "success" THEN SuccessStatus(t)
    ELSE IF result = "no_creds_found" THEN NoCredsStatus(t)
    ELSE FailedStatus(PrevCount(prev_status) + 1, t)

\* The status _run_vuln_scan_single records for a result
VulnOutcomeStatus(result, prev_status, t) ==
    IF result = "success" THEN SuccessStatus(t)
    ELSE FailedStatus(PrevCount(prev_status) + 1, t)

\* One action of _host_fully_exhausted's loop ends in `continue`
ActionExhausted(action, row) ==
    LET status == row.st[action.action_name]
    IN  \/ ~InPorts(action.port, row.ports)
        \/ ( action.b_parent_action # None
             /\ ~Contains(row.st[action.b_parent_action], "success") )
        \/ ( status # Empty
             /\ ( \/ ContainsNoCreds(status)
                  \/ ( Contains(status, "success") /\ ~policy.retry_success_actions )
                  \/ ( Contains(status, "failed")
                       /\ ( \/ ( Len(status) >= 2 /\ IsInt(status[2])
                                 /\ IntOf(status[2]) >= policy.max_failed_retries )
                            \/ ~policy.retry_failed_actions ) ) ) )

host_fully_exhausted(row) == \A i \in DOMAIN Actions : ActionExhausted(Actions[i], row)

--------------------------------------------------------------------------
(* The order in which a pass visits the table: the loops of process_alive_ips,
   process_per_host, process_per_phase and run_vuln_scans, unrolled into slots.
   loop 1 is the host loop of the pass procedure, loop 2 run_vuln_scans;
   counts says whether the return value feeds any_action_executed. *)

Slot(kind, h, a, loop, counts) ==
    [ kind |-> kind, h |-> h, a |-> a, loop |-> loop, counts |-> counts ]

IsParent(i) == Actions[i].b_parent_action = None

ActionIndexes == [ i \in 1 .. Len(Actions) |-> i ]
ParentIndexes == SelectSeq(ActionIndexes, IsParent)
IsChild(i) == ~IsParent(i)
ChildIndexes == SelectSeq(ActionIndexes, IsChild)

\* for action in self.actions: parents only / children only, on row h
ParentSlots(h) == [ j \in 1 .. Len(ParentIndexes) |-> Slot("action", h, ParentIndexes[j], 1, TRUE) ]
ChildSlots(h) == [ j \in 1 .. Len(ChildIndexes) |-> Slot("action", h, ChildIndexes[j], 1, TRUE) ]

\* for row in current_data: the blocks of the rows, one after the other
RECURSIVE ForRows(_)
ForRows(blocks) == IF blocks = << >> THEN << >> ELSE Head(blocks) \o ForRows(Tail(blocks))

\* run_vuln_scans(current_data)
run_vuln_scans(n, loop) == ForRows([ h \in 1 .. n |-> << Slot("vuln", h, 0, loop, FALSE) >> ])

\* process_alive_ips, followed on the first pass by run_vuln_scans (run, line 668)
SpreadSlots(n, passno) ==
    ForRows([ h \in 1 .. n |-> << Slot("begin", h, 0, 1, FALSE) >> \o ParentSlots(h) \o ChildSlots(h)
                                 \o << Slot("end", h, 0, 1, FALSE) >> ])
    \o (IF passno = 1 THEN run_vuln_scans(n, 2) ELSE << >>)

\* The slots of process_per_host taken phase by phase over the hosts
PerHostSlots_PhaseMajor(n) ==
    ForRows([ h \in 1 .. n |-> ParentSlots(h) ]) \o ForRows([ h \in 1 .. n |-> ChildSlots(h) ])
    \o ForRows([ h \in 1 .. n |-> << Slot("vuln", h, 0, 1, TRUE) >> ])
    \o << Slot("end", 0, 0, 1, FALSE) >>

\* process_per_host
PerHostSlots(n) ==
    ForRows([ h \in 1 .. n |-> << Slot("begin", h, 0, 1, FALSE) >> \o ParentSlots(h) \o ChildSlots(h)
                                 \o << Slot("vuln", h, 0, 1, TRUE), Slot("end", h, 0, 1, FALSE) >> ])

\* The slots of process_per_phase taken host by host
PerPhaseSlots_HostMajor(n) ==
    ForRows([ h \in 1 .. n |-> ParentSlots(h) \o ChildSlots(h)
                                 \o << Slot("vuln", h, 0, 1, FALSE) >> ])
    \o << Slot("end", 0, 0, 1, FALSE) >>

\* process_per_phase
PerPhaseSlots(n) ==
    ForRows([ h \in 1 .. n |-> ParentSlots(h) ]) \o ForRows([ h \in 1 .. n |-> ChildSlots(h) ])
    \o run_vuln_scans(n, 1)
    \o << Slot("end", 0, 0, 1, FALSE) >>

PassSlots(order, passno, n) ==
    IF order = "per_host" THEN PerHostSlots(n)
    ELSE IF order = "per_phase" THEN PerPhaseSlots(n)
    ELSE SpreadSlots(n, passno)

\* `continue` in the host loop: the first slot of the next row
NextRow(slots, i) ==
    CHOOSE j \in (i + 1) .. (Len(slots) + 1) :
        /\ j = Len(slots) + 1 \/ slots[j].h # slots[i].h \/ slots[j].loop # slots[i].loop
        /\ \A k \in (i + 1) .. (j - 1) : slots[k].h = slots[i].h /\ slots[k].loop = slots[i].loop

\* `break` in the host loop: the first slot after the loop
LoopEnd(slots, i) ==
    CHOOSE j \in (i + 1) .. (Len(slots) + 1) :
        /\ j = Len(slots) + 1 \/ slots[j].loop # slots[i].loop
        /\ \A k \in (i + 1) .. (j - 1) : slots[k].loop = slots[i].loop

\* shared_data.write_data(current_data): the whole table replaces the file
write_data(rows, file) == rows

\* shared_data.read_data()
read_data(file) == file

StandaloneIndex(rows) ==
    IF \E i \in DOMAIN rows : rows[i].mac = "STANDALONE"
    THEN CHOOSE i \in DOMAIN rows : rows[i].mac = "STANDALONE"
    ELSE 0

NoCall == [ kind |-> "none", h |-> 0, key |-> "", counts |-> FALSE, start |-> 0 ]

Call(kind, h, key, counts, t) ==
    [ kind |-> kind, h |-> h, key |-> key, counts |-> counts, start |-> t ]

\* An assignment that reaches the column of every row
SetStatus_AllRows(rows, h, key, status) ==
    [ i \in DOMAIN rows |-> [ rows[i] EXCEPT !.st[key] = status ] ]

SetStatus(rows, h, key, status) == [ rows EXCEPT ![h].st[key] = status ]

\* history: an execution started in the current cycle, in the first pass (1),
\* the re-run pass (2) or the standalone loop
StandalonePhase == 3
Entry(h, key, pass) == [ h |-> h, key |-> key, pass |-> pass ]

\* history: the run of consecutive failures of a pair
StreakAfter(result, h, key) ==
    [ streak EXCEPT ![h][key] = IF result \in { "success", "no_creds_found" } THEN 0 ELSE @ + 1 ]

--------------------------------------------------------------------------
(* The scheduler *)

\* NmapVulnScanner.HTTP_PORTS
HTTP_PORTS == { "80", "443", "8080", "8443" }

\* The batch table with the Slowloris check moved to the front
HTTP_VULN_BATCHES_SlowlorisFirst == << "Slowloris check", "CVE checks", "Backdoor and device checks",
                                       "Path enumeration", "Config checks", "Crawler checks" >>

\* NmapVulnScanner.HTTP_VULN_BATCHES, by batch name
HTTP_VULN_BATCHES == << "CVE checks", "Backdoor and device checks", "Path enumeration",
                        "Config checks", "Crawler checks", "Slowloris check" >>

\* The scan of a call: state is "atomic" where nmap_vuln_scanner.execute is
\* taken as one call that returns any of its results, and "idle", "ports",
\* "batches" or "done" where its loops are followed; port and batch are the
\* positions of the two loops, busy holds while subprocess.run is running,
\* combined and combined_result are the texts of _scan_http_port and
\* scan_vulnerabilities as sequences of outputs; started and returned are
\* history: the runs started and the runs that returned in time
NoScan(state) == [ state |-> state, port |-> 0, batch |-> 0, busy |-> FALSE,
                   batches_succeeded |-> 0, ports_succeeded |-> 0,
                   combined |-> << >>, combined_result |-> << >>,
                   started |-> << >>, returned |-> << >> ]

\* The stdout of the run of a script set against a port
Output(port, scripts) == << port, scripts >>

Atomic == NoScan("atomic")

Idle == NoScan("idle")

Not139(p) == p # "139"

\* A filter that drops 139 whether or not 445 is open
ScanPorts_Drop139(ports) == SelectSeq(ports, Not139)

\* scan_vulnerabilities, lines 222-224: 139 is dropped where 445 is open
ScanPorts(ports) == IF InPorts("445", ports) /\ InPorts("139", ports)
                    THEN SelectSeq(ports, Not139) ELSE ports

\* No text is being parsed
NoText == scan_result = << >> /\ parser = [ pc |-> "none" ]

\* No merge and no summary update is in progress
NoMerge == merge = [ pc |-> "none" ] /\ summary = [ pc |-> "none" ]

Slots == PassSlots(attack_order, pass_no, Len(data))

InitialRows(rows, status) == SetStatus(rows, 1, Actions[1].action_name, status)

\* The state after Orchestrator.__init__, for a host table, a set of retry
\* configurations and a set of statuses of the first pair
InitOf(rows, policies, statuses) ==
    /\ attack_order \in Strategies
    /\ policy \in policies
    /\ init_status \in statuses
    /\ now = 0
    /\ data = InitialRows(rows, init_status)
    /\ store = InitialRows(rows, init_status)
    /\ pc = "first_scan"
    /\ pass_no = 1
    /\ pos = 1
    /\ any_action_executed = FALSE
    /\ inflight = NoCall
    /\ orchestrator_should_exit = FALSE
    /\ failed_scans_count = 0
    /\ semaphore = SemaphoreCapacity
    /\ sa_idx = 1
    /\ idle_end_time = 0
    /\ passes = 0
    /\ pass_log = << >>
    /\ last_result = None
    /\ streak = [ h \in 1 .. (Len(HostRows) + 1) |-> [ k \in Keys |-> 0 ] ]
    /\ cmp = << >>

\* One discovered host, every retry configuration
Init == InitOf(SubSeq(HostRows, 1, 1), Policies, InitialStatuses) /\ nmap = Atomic /\ NoText /\ NoMerge

\* Two discovered hosts
InitOrder == InitOf(HostRows, OrderPolicies, { Empty }) /\ nmap = Atomic /\ NoText /\ NoMerge

\* run, lines 651-655: the first network scan
FirstScan ==
    /\ pc = "first_scan"
    /\ pc' = "loop_top"
    /\ UNCHANGED << attack_order, policy, now, data, store, pass_no, pos,
                    any_action_executed, inflight, orchestrator_should_exit,
                    failed_scans_count, semaphore, sa_idx, idle_end_time, passes,
                    pass_log, last_result, streak, init_status, cmp, nmap, scan_result, parser, merge, summary >>

\* A loop condition that does not read the exit flag
LoopTop_NoExitCheck ==
    /\ pc = "loop_top"
    /\ passes < MaxPasses
    /\ passes' = passes + 1
    /\ data' = read_data(store)
    /\ pass_no' = 1
    /\ pos' = 1
    /\ any_action_executed' = FALSE
    /\ pass_log' = << >>
    /\ pc' = "pass"
    /\ UNCHANGED << attack_order, policy, now, store, inflight, orchestrator_should_exit,
                    failed_scans_count, semaphore, sa_idx, idle_end_time,
                    last_result, streak, init_status, cmp, nmap, scan_result, parser, merge, summary >>

\* run, lines 657-667: the loop condition, read_data and the start of the pass
LoopTop ==
    /\ pc = "loop_top"
    /\ IF orchestrator_should_exit
       THEN /\ pc' = "done"
            /\ UNCHANGED << data, pass_no, pos, any_action_executed, passes, pass_log >>
       ELSE /\ passes < MaxPasses
            /\ passes' = passes + 1
            /\ data' = read_data(store)
            /\ pass_no' = 1
            /\ pos' = 1
            /\ any_action_executed' = FALSE
            /\ pass_log' = << >>
            /\ pc' = "pass"
    /\ UNCHANGED << attack_order, policy, now, store, inflight, orchestrator_should_exit,
                    failed_scans_count, semaphore, sa_idx, idle_end_time,
                    last_result, streak, init_status, cmp, nmap, scan_result, parser, merge, summary >>

InPass == pc = "pass" /\ inflight = NoCall /\ pos <= Len(Slots)

\* The head of the host loop of process_alive_ips and process_per_host: the
\* exit check, the Alive check and (spread) the exhaustion check
HostBegin ==
    /\ InPass
    /\ Slots[pos].kind = "begin"
    /\ LET row == data[Slots[pos].h]
       IN  pos' = IF orchestrator_should_exit THEN LoopEnd(Slots, pos)
                  ELSE IF row.alive # "1" THEN NextRow(Slots, pos)
                  ELSE IF attack_order = "spread" /\ host_fully_exhausted(row)
                       THEN NextRow(Slots, pos)
                  ELSE pos + 1
    /\ UNCHANGED << attack_order, policy, now, data, store, pc, pass_no,
                    any_action_executed, inflight, orchestrator_should_exit,
                    failed_scans_count, semaphore, sa_idx, idle_end_time, passes,
                    pass_log, last_result, streak, init_status, cmp, nmap, scan_result, parser, merge, summary >>

\* One iteration of an action loop: the exit check, `with self.semaphore` and
\* execute_action up to the call of action.execute
ActionStep ==
    /\ InPass
    /\ Slots[pos].kind = "action"
    /\ LET slot == Slots[pos]
           row == data[slot.h]
           action == Actions[slot.a]
           gate == IF orchestrator_should_exit \/ row.alive # "1" THEN "skip"
                   ELSE ExecuteActionGate(action, row, now)
       IN  IF gate = "run"
           THEN /\ semaphore > 0
                /\ semaphore' = semaphore - 1
                /\ inflight' = Call("action", slot.h, action.action_name, slot.counts, now)
                /\ pass_log' = Append(pass_log, Entry(slot.h, action.action_name, pass_no))
                /\ UNCHANGED << pos, pc >>
           ELSE /\ pos' = pos + 1
                /\ pc' = IF gate = "raise" THEN "crashed" ELSE pc
                /\ UNCHANGED << semaphore, inflight, pass_log >>
    /\ UNCHANGED << attack_order, policy, now, data, store, pass_no,
                    any_action_executed, orchestrator_should_exit,
                    failed_scans_count, sa_idx, idle_end_time, passes,
                    last_result, streak, init_status, cmp, nmap, scan_result, parser, merge, summary >>

\* execute_action from the return of action.execute, without the write_data
\* that follows the new status
ActionReturn_NoWrite ==
    /\ pc = "pass"
    /\ inflight.kind = "action"
    /\ \E result \in Results :
        /\ data' = SetStatus(data, inflight.h, inflight.key,
                             OutcomeStatus(result, data[inflight.h].st[inflight.key], now))
        /\ any_action_executed' = (any_action_executed \/ result = "success")
        /\ last_result' = result
        /\ streak' = StreakAfter(result, inflight.h, inflight.key)
    /\ semaphore' = semaphore + 1
    /\ inflight' = NoCall
    /\ pos' = pos + 1
    /\ UNCHANGED << attack_order, policy, now, store, pc, pass_no, orchestrator_should_exit,
                    failed_scans_count, sa_idx, idle_end_time, passes,
                    pass_log, init_status, cmp, nmap, scan_result, parser, merge, summary >>

\* execute_action from the return of action.execute, with the semaphore not
\* released
ActionReturn_NoRelease ==
    /\ pc = "pass"
    /\ inflight.kind = "action"
    /\ \E result \in Results :
        /\ data' = SetStatus(data, inflight.h, inflight.key,
                             OutcomeStatus(result, data[inflight.h].st[inflight.key], now))
        /\ store' = write_data(data', store)
        /\ any_action_executed' = (any_action_executed \/ result = "success")
        /\ last_result' = result
        /\ streak' = StreakAfter(result, inflight.h, inflight.key)
    /\ inflight' = NoCall
    /\ pos' = pos + 1
    /\ UNCHANGED << attack_order, policy, now, pc, pass_no, orchestrator_should_exit,
                    failed_scans_count, semaphore, sa_idx, idle_end_time, passes,
                    pass_log, init_status, cmp, nmap, scan_result, parser, merge, summary >>

\* execute_action from the return of action.execute: the status, the
\* write-through, the return value and the release of the semaphore
ActionReturn ==
    /\ pc = "pass"
    /\ inflight.kind = "action"
    /\ \E result \in Results :
        /\ data' = SetStatus(data, inflight.h, inflight.key,
                             OutcomeStatus(result, data[inflight.h].st[inflight.key], now))
        /\ store' = write_data(data', store)
        /\ any_action_executed' = (any_action_executed \/ result = "success")
        /\ last_result' = result
        /\ streak' = StreakAfter(result, inflight.h, inflight.key)
    /\ semaphore' = semaphore + 1
    /\ inflight' = NoCall
    /\ pos' = pos + 1
    /\ UNCHANGED << attack_order, policy, now, pc, pass_no, orchestrator_should_exit,
                    failed_scans_count, sa_idx, idle_end_time, passes,
                    pass_log, init_status, cmp, nmap, scan_result, parser, merge, summary >>

VulnResults == { "success", "failed", "exception" }

\* A scan that is a success only when every port of the plan returned
ExecuteResults_AllPorts ==
    IF nmap = Atomic THEN VulnResults
    ELSE IF nmap.ports_succeeded >= Len(ScanPorts(data[inflight.h].ports))
         THEN { "success" } ELSE { "failed" }

\* execute, lines 304-311, with nse_available: what the scan of the call returns
ExecuteResults == IF nmap = Atomic THEN VulnResults
                  ELSE IF nmap.ports_succeeded > 0 THEN { "success" } ELSE { "failed" }

\* One vuln-scan step (run_vuln_scans' loop body, or phase 3 of process_per_host):
\* the exit check, the Alive check and _run_vuln_scan_single up to the call
VulnStep ==
    /\ InPass
    /\ Slots[pos].kind = "vuln"
    /\ LET slot == Slots[pos]
           row == data[slot.h]
           gate == IF orchestrator_should_exit \/ row.alive # "1" THEN "skip"
                   ELSE VulnScanGate(row, now)
       IN  IF gate = "run"
           THEN /\ inflight' = Call("vuln", slot.h, VulnKey, slot.counts, now)
                /\ pass_log' = Append(pass_log, Entry(slot.h, VulnKey, pass_no))
                /\ nmap' = IF nmap = Atomic THEN Atomic
                           ELSE [ Idle EXCEPT !.state = "ports", !.port = 1 ]
                /\ UNCHANGED pos
           ELSE /\ pos' = pos + 1
                /\ UNCHANGED << inflight, pass_log, nmap >>
    /\ UNCHANGED << attack_order, policy, now, data, store, pc, pass_no,
                    any_action_executed, orchestrator_should_exit,
                    failed_scans_count, semaphore, sa_idx, idle_end_time, passes,
                    last_result, streak, init_status, cmp, scan_result, parser, merge, summary >>

\* _run_vuln_scan_single from the return of nmap_vuln_scanner.execute
VulnReturn ==
    /\ pc = "pass"
    /\ inflight.kind = "vuln"
    /\ nmap.state \in { "atomic", "done" }
    /\ nmap' = IF nmap = Atomic THEN Atomic ELSE Idle
    /\ \E result \in ExecuteResults :
        /\ data' = SetStatus(data, inflight.h, VulnKey,
                             VulnOutcomeStatus(result, data[inflight.h].st[VulnKey], now))
        /\ store' = write_data(data', store)
        /\ any_action_executed' =
               (any_action_executed \/ (inflight.counts /\ result # "exception"))
        /\ last_result' = result
        /\ streak' = StreakAfter(result, inflight.h, VulnKey)
    /\ inflight' = NoCall
    /\ pos' = pos + 1
    /\ UNCHANGED << attack_order, policy, now, pc, pass_no, orchestrator_should_exit,
                    failed_scans_count, semaphore, sa_idx, idle_end_time, passes,
                    pass_log, init_status, cmp, scan_result, parser, merge, summary >>

\* The tail of the host loop (of the procedure, for per_phase):
\* if any_action_executed: write_data(current_data)
HostEnd ==
    /\ InPass
    /\ Slots[pos].kind = "end"
    /\ store' = IF any_action_executed THEN write_data(data, store) ELSE store
    /\ pos' = pos + 1
    /\ UNCHANGED << attack_order, policy, now, data, pc, pass_no,
                    any_action_executed, inflight, orchestrator_should_exit,
                    failed_scans_count, semaphore, sa_idx, idle_end_time, passes,
                    pass_log, last_result, streak, init_status, cmp, nmap, scan_result, parser, merge, summary >>

PassOver == pc = "pass" /\ inflight = NoCall /\ pos > Len(Slots)

\* run, lines 670-680 and 712-717: after the first pass
EndFirstPass ==
    /\ PassOver
    /\ pass_no = 1
    /\ IF any_action_executed
       THEN /\ failed_scans_count' = 0
            /\ pc' = "loop_top"
       ELSE /\ pc' = IF orchestrator_should_exit THEN "loop_top" ELSE "scanning"
            /\ UNCHANGED failed_scans_count
    /\ UNCHANGED << attack_order, policy, now, data, store, pass_no, pos,
                    any_action_executed, inflight, orchestrator_should_exit,
                    semaphore, sa_idx, idle_end_time, passes,
                    pass_log, last_result, streak, init_status, cmp, nmap, scan_result, parser, merge, summary >>

\* Clock ticks a network scan can take
ScanDurations == { 0, 1 }

\* run, lines 678-688: network_scanner.scan() returns; re-read and re-run
ScanReturn ==
    /\ pc = "scanning"
    /\ IF orchestrator_should_exit
       THEN /\ pc' = "loop_top"
            /\ UNCHANGED << data, pass_no, pos, any_action_executed, passes >>
       ELSE /\ passes < MaxPasses
            /\ passes' = passes + 1
            /\ data' = read_data(store)
            /\ pass_no' = 2
            /\ pos' = 1
            /\ any_action_executed' = FALSE
            /\ pc' = "pass"
    /\ \E d \in ScanDurations : now' = now + d
    /\ UNCHANGED << attack_order, policy, store, inflight, orchestrator_should_exit,
                    failed_scans_count, semaphore, sa_idx, idle_end_time,
                    pass_log, last_result, streak, init_status, cmp, nmap, scan_result, parser, merge, summary >>

\* run, lines 692-693: after the re-run pass
EndRerunPass ==
    /\ PassOver
    /\ pass_no = 2
    /\ failed_scans_count' = failed_scans_count + 1
    /\ sa_idx' = 1
    /\ pc' = "standalone"
    /\ UNCHANGED << attack_order, policy, now, data, store, pass_no, pos,
                    any_action_executed, inflight, orchestrator_should_exit,
                    semaphore, idle_end_time, passes,
                    pass_log, last_result, streak, init_status, cmp, nmap, scan_result, parser, merge, summary >>

StandaloneOver == sa_idx > Len(StandaloneActions) \/ orchestrator_should_exit

\* run, lines 694-698: one iteration of the standalone loop, and
\* execute_standalone_action up to the call of action.execute
StandaloneStep ==
    /\ pc = "standalone"
    /\ inflight = NoCall
    /\ ~StandaloneOver
    /\ LET action == StandaloneActions[sa_idx]
           rows == IF StandaloneIndex(data) = 0 THEN Append(data, StandaloneRow) ELSE data
           h == StandaloneIndex(rows)
           gate == StandaloneGate(action, rows[h], now)
       IN  /\ data' = rows
           /\ IF gate = "run"
              THEN /\ semaphore > 0
                   /\ semaphore' = semaphore - 1
                   /\ inflight' = Call("standalone", h, action.action_name, FALSE, now)
                   /\ pass_log' = Append(pass_log, Entry(h, action.action_name, StandalonePhase))
                   /\ UNCHANGED << sa_idx, pc >>
              ELSE /\ sa_idx' = sa_idx + 1
                   /\ pc' = IF gate = "raise" THEN "crashed" ELSE pc
                   /\ UNCHANGED << semaphore, inflight, pass_log >>
    /\ UNCHANGED << attack_order, policy, now, store, pass_no, pos,
                    any_action_executed, orchestrator_should_exit,
                    failed_scans_count, idle_end_time, passes,
                    last_result, streak, init_status, cmp, nmap, scan_result, parser, merge, summary >>

\* execute_standalone_action from the return of action.execute, and lines 698-700
StandaloneReturn ==
    /\ pc = "standalone"
    /\ inflight.kind = "standalone"
    /\ \E result \in Results :
        /\ data' = SetStatus(data, inflight.h, inflight.key,
                             OutcomeStatus(result, data[inflight.h].st[inflight.key], now))
        /\ store' = write_data(data', store)
        /\ failed_scans_count' = IF result = "success" THEN 0 ELSE failed_scans_count
        /\ sa_idx' = IF result = "success" THEN Len(StandaloneActions) + 1 ELSE sa_idx + 1
        /\ last_result' = result
        /\ streak' = StreakAfter(result, inflight.h, inflight.key)
    /\ semaphore' = semaphore + 1
    /\ inflight' = NoCall
    /\ UNCHANGED << attack_order, policy, now, pc, pass_no, pos, any_action_executed,
                    orchestrator_should_exit, idle_end_time, passes,
                    pass_log, init_status, cmp, nmap, scan_result, parser, merge, summary >>

\* run, lines 701-705: the idle sleep begins
StartSleep ==
    /\ pc = "standalone"
    /\ inflight = NoCall
    /\ StandaloneOver
    /\ idle_end_time' = now + ScanInterval
    /\ pc' = "sleep"
    /\ UNCHANGED << attack_order, policy, now, data, store, pass_no, pos,
                    any_action_executed, inflight, orchestrator_should_exit,
                    failed_scans_count, semaphore, sa_idx, passes,
                    pass_log, last_result, streak, init_status, cmp, nmap, scan_result, parser, merge, summary >>

\* run, lines 706-711: one iteration of the sleep loop
SleepTick ==
    /\ pc = "sleep"
    /\ IF now >= idle_end_time \/ orchestrator_should_exit
       THEN /\ failed_scans_count' = 0
            /\ pc' = "loop_top"
            /\ UNCHANGED now
       ELSE /\ now' = now + 1
            /\ UNCHANGED << failed_scans_count, pc >>
    /\ UNCHANGED << attack_order, policy, data, store, pass_no, pos,
                    any_action_executed, inflight, orchestrator_should_exit,
                    semaphore, sa_idx, idle_end_time, passes,
                    pass_log, last_result, streak, init_status, cmp, nmap, scan_result, parser, merge, summary >>

\* The exit flag is set from outside (signal handler, UI)
Stop ==
    /\ ~orchestrator_should_exit
    /\ pc \notin { "done", "crashed" }
    /\ orchestrator_should_exit' = TRUE
    /\ UNCHANGED << attack_order, policy, now, data, store, pc, pass_no, pos,
                    any_action_executed, inflight, failed_scans_count, semaphore,
                    sa_idx, idle_end_time, passes, pass_log, last_result, streak,
                    init_status, cmp, nmap, scan_result, parser, merge, summary >>

Next ==
    \/ FirstScan
    \/ LoopTop
    \/ HostBegin
    \/ ActionStep
    \/ ActionReturn
    \/ VulnStep
    \/ VulnReturn
    \/ HostEnd
    \/ EndFirstPass
    \/ ScanReturn
    \/ EndRerunPass
    \/ StandaloneStep
    \/ StandaloneReturn
    \/ StartSleep
    \/ SleepTick
    \/ Stop

Spec == Init /\ [][Next]_vars

SpecOrder == InitOrder /\ [][Next]_vars

\* The run of one discovered host whose thread keeps taking steps: every call
\* of action.execute and every network scan returns
\* (the exit flag is set from outside, so no fairness is put on Stop)
ThreadStep == Next /\ UNCHANGED orchestrator_should_exit

SpecLive == Init /\ [][Next]_vars /\ WF_vars(ThreadStep)

\* Statuses no version of the scheduler writes: a bare success, a bare failed,
\* a success whose timestamp does not parse
MalformedStatuses == { << "success" >>, << "failed" >>, << "success", "x", "y" >> }

\* One discovered host whose first pair holds a malformed status
InitParse == InitOf(SubSeq(HostRows, 1, 1), OrderPolicies, MalformedStatuses) /\ nmap = Atomic /\ NoText /\ NoMerge

SpecParse == InitParse /\ [][Next]_vars

\* Tables with rows the passes must leave alone: a host outside the target
\* network, a host that is not alive, a host without the port of the actions,
\* and the STANDALONE row that an earlier cycle has written
AdmitTables == {
    << HostRows[1], [ HostRows[2] EXCEPT !.ip = "192.168.9.9" ] >>,
    << [ HostRows[2] EXCEPT !.alive = "0" ], [ HostRows[1] EXCEPT !.ports = << "80" >> ] >>,
    << HostRows[1], StandaloneRow >> }

\* Two rows, one of them not to be attacked
InitAdmit ==
    /\ \E rows \in AdmitTables : InitOf(rows, OrderPolicies, { Empty })
    /\ nmap = Atomic
    /\ NoText /\ NoMerge

SpecAdmit == InitAdmit /\ [][Next]_vars

--------------------------------------------------------------------------
(* The run with the loops of NmapVulnScanner followed step by step, one
   discovered host with an SSH and an HTTP port *)

\* scan_vulnerabilities, lines 230-238 and 240-242: the head of the port loop,
\* up to the call of subprocess.run for a port that is not an HTTP port
ScanPortStep ==
    /\ inflight.kind = "vuln"
    /\ nmap.state = "ports"
    /\ ~nmap.busy
    /\ LET ports == ScanPorts(data[inflight.h].ports)
       IN  nmap' = IF orchestrator_should_exit \/ nmap.port > Len(ports)
                   THEN [ nmap EXCEPT !.state = "done" ]
                   ELSE IF ports[nmap.port] \in HTTP_PORTS
                        THEN [ nmap EXCEPT !.state = "batches", !.batch = 1,
                                           !.batches_succeeded = 0, !.combined = << >> ]
                        ELSE [ nmap EXCEPT !.busy = TRUE,
                                           !.started = Append(@, Output(ports[nmap.port], "vuln")) ]
    /\ UNCHANGED << attack_order, policy, now, data, store, pc, pass_no, pos,
                    any_action_executed, inflight, orchestrator_should_exit,
                    failed_scans_count, semaphore, sa_idx, idle_end_time, passes,
                    pass_log, last_result, streak, init_status, cmp, scan_result, parser, merge, summary >>

\* A batch loop without the exit check of lines 188-189
ScanBatchStep_NoExitCheck ==
    /\ inflight.kind = "vuln"
    /\ nmap.state = "batches"
    /\ ~nmap.busy
    /\ LET port == ScanPorts(data[inflight.h].ports)[nmap.port]
       IN  nmap' = IF nmap.batch > Len(HTTP_VULN_BATCHES)
                   THEN [ nmap EXCEPT !.state = "ports", !.port = @ + 1,
                                      !.ports_succeeded =
                                          @ + (IF nmap.batches_succeeded > 0 THEN 1 ELSE 0),
                                      !.combined_result =
                                          IF nmap.batches_succeeded > 0
                                          THEN @ \o nmap.combined ELSE @ ]
                   ELSE [ nmap EXCEPT !.busy = TRUE,
                                      !.started = Append(@, Output(port,
                                                      HTTP_VULN_BATCHES[nmap.batch])) ]
    /\ UNCHANGED << attack_order, policy, now, data, store, pc, pass_no, pos,
                    any_action_executed, inflight, orchestrator_should_exit,
                    failed_scans_count, semaphore, sa_idx, idle_end_time, passes,
                    pass_log, last_result, streak, init_status, cmp, scan_result, parser, merge, summary >>

\* _scan_http_port, lines 187-196 and 203, and scan_vulnerabilities, lines
\* 240-242: the head of the batch loop, up to the call of subprocess.run for
\* the batch; after the loop the port is counted and its text taken over
ScanBatchStep ==
    /\ inflight.kind = "vuln"
    /\ nmap.state = "batches"
    /\ ~nmap.busy
    /\ LET port == ScanPorts(data[inflight.h].ports)[nmap.port]
       IN  nmap' = IF orchestrator_should_exit \/ nmap.batch > Len(HTTP_VULN_BATCHES)
                   THEN [ nmap EXCEPT !.state = "ports", !.port = @ + 1,
                                      !.ports_succeeded =
                                          @ + (IF nmap.batches_succeeded > 0 THEN 1 ELSE 0),
                                      !.combined_result =
                                          IF nmap.batches_succeeded > 0
                                          THEN @ \o nmap.combined ELSE @ ]
                   ELSE [ nmap EXCEPT !.busy = TRUE,
                                      !.started = Append(@, Output(port,
                                                      HTTP_VULN_BATCHES[nmap.batch])) ]
    /\ UNCHANGED << attack_order, policy, now, data, store, pc, pass_no, pos,
                    any_action_executed, inflight, orchestrator_should_exit,
                    failed_scans_count, semaphore, sa_idx, idle_end_time, passes,
                    pass_log, last_result, streak, init_status, cmp, scan_result, parser, merge, summary >>

\* A run whose timeout or error ends the scan of the host
RunScriptsReturn_Abort ==
    /\ nmap.busy
    /\ \E ok \in BOOLEAN :
        LET stdout == nmap.started[Len(nmap.started)]
        IN  nmap' = IF ~ok THEN [ nmap EXCEPT !.busy = FALSE, !.state = "done" ] ELSE
                    IF nmap.state = "batches"
                    THEN [ nmap EXCEPT !.busy = FALSE, !.batch = @ + 1,
                                       !.batches_succeeded = @ + (IF ok THEN 1 ELSE 0),
                                       !.combined = IF ok THEN Append(@, stdout) ELSE @,
                                       !.returned = IF ok THEN Append(@, stdout) ELSE @ ]
                    ELSE [ nmap EXCEPT !.busy = FALSE, !.port = @ + 1,
                                       !.ports_succeeded = @ + (IF ok THEN 1 ELSE 0),
                                       !.combined_result = IF ok THEN Append(@, stdout) ELSE @,
                                       !.returned = IF ok THEN Append(@, stdout) ELSE @ ]
    /\ UNCHANGED << attack_order, policy, now, data, store, pc, pass_no, pos,
                    any_action_executed, inflight, orchestrator_should_exit,
                    failed_scans_count, semaphore, sa_idx, idle_end_time, passes,
                    pass_log, last_result, streak, init_status, cmp, scan_result, parser, merge, summary >>

\* _run_nmap_scripts, lines 164-179: subprocess.run returns, or is ended at
\* batch_timeout, and the loop that called it counts the outcome (lines
\* 197-199 and 240-242)
RunScriptsReturn ==
    /\ nmap.busy
    /\ \E ok \in BOOLEAN :
        LET stdout == nmap.started[Len(nmap.started)]
        IN  nmap' = 
                    IF nmap.state = "batches"
                    THEN [ nmap EXCEPT !.busy = FALSE, !.batch = @ + 1,
                                       !.batches_succeeded = @ + (IF ok THEN 1 ELSE 0),
                                       !.combined = IF ok THEN Append(@, stdout) ELSE @,
                                       !.returned = IF ok THEN Append(@, stdout) ELSE @ ]
                    ELSE [ nmap EXCEPT !.busy = FALSE, !.port = @ + 1,
                                       !.ports_succeeded = @ + (IF ok THEN 1 ELSE 0),
                                       !.combined_result = IF ok THEN Append(@, stdout) ELSE @,
                                       !.returned = IF ok THEN Append(@, stdout) ELSE @ ]
    /\ UNCHANGED << attack_order, policy, now, data, store, pc, pass_no, pos,
                    any_action_executed, inflight, orchestrator_should_exit,
                    failed_scans_count, semaphore, sa_idx, idle_end_time, passes,
                    pass_log, last_result, streak, init_status, cmp, scan_result, parser, merge, summary >>

InitStop == InitOf(SubSeq(HostRows, 1, 1), OrderPolicies, { Empty }) /\ nmap = Idle /\ NoText /\ NoMerge

NextStop ==
    \/ Next
    \/ ScanPortStep
    \/ ScanBatchStep
    \/ RunScriptsReturn

\* The thread of run is scheduled and the calls it waits for return
SpecStop == InitStop /\ [][NextStop]_vars /\ WF_vars(NextStop)

\* Port lists the discovery scanner can report for the host
ScanPortLists == { << "80", "445", "139" >>, << "139", "22", "445" >>,
                   << "22", "139" >>, << "22", "445" >> }

\* One discovered host, with each of the port lists
InitScan ==
    /\ \E ports \in ScanPortLists :
        InitOf(<< [ HostRows[1] EXCEPT !.ports = ports ] >>, OrderPolicies, { Empty })
    /\ nmap = Idle
    /\ NoText /\ NoMerge

SpecScan == InitScan /\ [][NextStop]_vars

--------------------------------------------------------------------------
(* The scan output parser: parse_vulnerabilities (the labels of the summary)
   and parse_vulnerability_details (the structured findings).  A line of nmap
   output is its lead ("|", "|_" or "" for a line without a pipe), the script
   identifier where the line is a script header, and its remaining text as a
   sequence of tokens: words and runs of whitespace, " " for one blank and
   "  " for a longer run.  A port line ("80/tcp open http") carries its port
   and service in place of a text. *)

Line(lead, script, body) ==
    [ lead |-> lead, script |-> script, body |-> body, port |-> None, service |-> None ]

PortLine(port, service) ==
    [ lead |-> "", script |-> None, body |-> << >>, port |-> port, service |-> service ]

\* \s
IsWs(t) == t \in { " ", "  " }

RECURSIVE LStrip(_)
LStrip(str) == IF str # << >> /\ IsWs(Head(str)) THEN LStrip(Tail(str)) ELSE str

RECURSIVE RStrip(_)
RStrip(str) == IF str # << >> /\ IsWs(str[Len(str)])
               THEN RStrip(SubSeq(str, 1, Len(str) - 1)) ELSE str

\* str.strip()
Strip(str) == RStrip(LStrip(str))

\* re.sub(r'^\|[_ ]?\s*', '', line).strip(), for a line that starts with a pipe
Stripped(line) == Strip(line.body)

\* pat in str
HasSub(str, pat) ==
    \E i \in 1 .. (Len(str) - Len(pat) + 1) : SubSeq(str, i, i + Len(pat) - 1) = pat

\* str.startswith(pat)
StartsWith(str, pat) == Len(str) >= Len(pat) /\ SubSeq(str, 1, Len(pat)) = pat

\* The lower-case form of a token (re.IGNORECASE)
Lower(t) ==
    CASE t = "Couldn't" -> "couldn't"
      [] t = "NOT" -> "not"
      [] t = "VULNERABLE" -> "vulnerable"
      [] t = "No" -> "no"
      [] t = "ERROR:" -> "error:"
      [] t = "ERROR" -> "error"
      [] t = "Script" -> "script"
      [] OTHER -> t

LowerAll(str) == [ i \in DOMAIN str |-> Lower(str[i]) ]

\* _SCRIPT_RE.match(line)
IsHeader(line) == line.lead \in { "|", "|_" } /\ line.script # None

\* The patterns of _NEGATIVE_RE that match anywhere in the text
NegativePatterns == {
    << "couldn't", " ", "find", " ", "any" >>,
    << "couldn't", " ", "find", " ", "a", " ", "file-type" >>,
    << "not", " ", "vulnerable" >>,
    << "no", " ", "vulnerable" >>,
    << "no", " ", "issues", " ", "found" >>,
    << "script", " ", "execution", " ", "failed" >> }

\* _NEGATIVE_RE.search(str)
Negative(str) ==
    LET low == LowerAll(str)
    IN  \/ \E pat \in NegativePatterns : HasSub(low, pat)
        \/ low # << >> /\ low[1] = "error:"
        \/ low = << "error" >>

\* _NOISE_RE.match(str)
Noise(str) ==
    LET low == LowerAll(str)
    IN  \/ StartsWith(low, << "spidering", " ", "limited", " ", "to:" >>)
        \/ StartsWith(low, << "couldn't", " ", "find" >>)
        \/ StartsWith(low, << "no", " ", "output", " ", "from" >>)
        \/ StartsWith(low, << "did", " ", "not", " ", "find", " ", "any" >>)
        \/ StartsWith(low, << "server", " ", "does", " ", "not" >>)

\* Where in the text State:\s+((?:LIKELY\s+)?VULNERABLE) matches: the index of State:
StateAt(str, i) ==
    /\ i + 2 <= Len(str)
    /\ str[i] = "State:"
    /\ IsWs(str[i + 1])
    /\ \/ str[i + 2] = "VULNERABLE"
       \/ /\ i + 4 <= Len(str)
          /\ str[i + 2] = "LIKELY"
          /\ IsWs(str[i + 3])
          /\ str[i + 4] = "VULNERABLE"

\* re.search(r'State:\s+((?:LIKELY\s+)?VULNERABLE)', line)
StateMatch(line) == \E i \in DOMAIN line.body : StateAt(line.body, i)

\* state_match.group(1): the matched text, whitespace included
StateGroup(line) ==
    LET str == line.body
        i == CHOOSE j \in DOMAIN str : StateAt(str, j) /\ \A k \in 1 .. (j - 1) : ~StateAt(str, k)
    IN  IF str[i + 2] = "VULNERABLE" THEN << "VULNERABLE" >> ELSE SubSeq(str, i + 2, i + 4)

\* re.findall(r'CVE-\d{4}-\d+', token)
TokenCves(t) ==
    CASE t = "CVE:CVE-2012-1823" -> << "CVE-2012-1823" >>
      [] t = "https://cve.mitre.org/cgi-bin/cvename.cgi?name=CVE-2012-1823" -> << "CVE-2012-1823" >>
      [] t = "CVE-2014-6271" -> << "CVE-2014-6271" >>
      [] OTHER -> << >>

RECURSIVE Cves(_)
\* re.findall(r'CVE-\d{4}-\d+', line)
Cves(str) == IF str = << >> THEN << >> ELSE TokenCves(Head(str)) \o Cves(Tail(str))

\* 'http://' in stripped or 'https://' in stripped
IsUrl(str) ==
    \E i \in DOMAIN str :
        str[i] = "https://cve.mitre.org/cgi-bin/cvename.cgi?name=CVE-2012-1823"

\* _SCRIPT_TITLES, for the scripts of the model
SCRIPT_TITLES == [ name \in { "http-git", "http-trace", "http-csrf" } |->
    CASE name = "http-git" -> "Git Repository Exposed"
      [] name = "http-trace" -> "TRACE Method Enabled"
      [] name = "http-csrf" -> "CSRF Vulnerabilities" ]

\* script_name.startswith('http-vuln-'), for the scripts of the model
IsHttpVuln(name) == name \in { "http-vuln-cve2012-1823" }

\* The elements of a sequence
Range(seq) == { seq[i] : i \in DOMAIN seq }

RECURSIVE Join(_)
\* ' '.join(strs)
Join(strs) == IF strs = << >> THEN << >>
              ELSE IF Len(strs) = 1 THEN strs[1]
              ELSE strs[1] \o << " " >> \o Join(Tail(strs))

\* port or ''
OrEmpty(v) == IF v = None THEN "" ELSE v

\* A finding dict
Finding(port, service, script, title, state, cves, risk, description, disclosure, refs) ==
    [ port |-> OrEmpty(port), service |-> OrEmpty(service), script |-> script,
      title |-> title, state |-> state, cves |-> cves, risk |-> risk,
      description |-> description, disclosure_date |-> disclosure, references |-> refs ]

\* _make_info_finding
make_info_finding(script_name, text, port, service) ==
    Finding(port, service, script_name,
            IF script_name \in DOMAIN SCRIPT_TITLES
            THEN << SCRIPT_TITLES[script_name] >> ELSE << script_name >>,
            << "FOUND" >>, { }, << "Informational" >>, text, << >>, << >>)

\* _parse_vuln_block, lines 533-542: the locals before the loop; returned
\* holds once the loop has left the function with None
BlockStart ==
    [ state |-> << >>, title |-> << >>, cves |-> << >>, risk |-> << >>,
      desc_lines |-> << >>, disclosure |-> << >>, refs |-> << >>, in_refs |-> FALSE,
      got_title |-> FALSE, info_lines |-> << >>, returned |-> FALSE ]

\* A loop body that only skips a line holding NOT VULNERABLE
BlockLine_MarkerSkipped(b, line) ==
    LET stripped == Stripped(line)
        risk == << "Risk", " ", "factor:" >>
        date == << "Disclosure", " ", "date:" >>
    IN  IF b.returned THEN b
        ELSE IF StateMatch(line)
        THEN [ b EXCEPT !.state = StateGroup(line), !.in_refs = FALSE ]
        ELSE IF stripped \in { << "VULNERABLE:" >>, << "LIKELY", " ", "VULNERABLE:" >> } THEN b
        ELSE IF HasSub(stripped, << "NOT", " ", "VULNERABLE" >>) THEN b
        ELSE IF Negative(stripped) THEN b
        ELSE IF stripped = << "References:" >> THEN [ b EXCEPT !.in_refs = TRUE ]
        ELSE IF b.in_refs /\ IsUrl(stripped) THEN [ b EXCEPT !.refs = Append(@, stripped) ]
        ELSE IF ~b.in_refs /\ Cves(line.body) # << >>
        THEN [ b EXCEPT !.cves = @ \o Cves(line.body) ]
        ELSE IF StartsWith(stripped, << "IDs:" >>) THEN b
        ELSE IF StartsWith(stripped, risk) /\ Len(stripped) > Len(risk)
        THEN [ b EXCEPT !.risk = Strip(SubSeq(stripped, Len(risk) + 1, Len(stripped))),
                        !.in_refs = FALSE ]
        ELSE IF StartsWith(stripped, date) /\ Len(stripped) > Len(date)
        THEN [ b EXCEPT !.disclosure = Strip(SubSeq(stripped, Len(date) + 1, Len(stripped))),
                        !.in_refs = FALSE ]
        ELSE IF \/ StartsWith(stripped, << "State:" >>) \/ StartsWith(stripped, risk)
                \/ StartsWith(stripped, date) \/ StartsWith(stripped, << "References:" >>)
        THEN b
        ELSE LET info == IF stripped # << >> /\ ~Noise(stripped)
                         THEN Append(b.info_lines, stripped) ELSE b.info_lines
             IN  IF ~b.got_title /\ stripped # << >>
                 THEN [ b EXCEPT !.info_lines = info, !.title = stripped, !.got_title = TRUE ]
                 ELSE IF b.got_title /\ ~b.in_refs /\ stripped # << >>
                 THEN [ b EXCEPT !.info_lines = info, !.desc_lines = Append(@, stripped) ]
                 ELSE [ b EXCEPT !.info_lines = info ]

\* _parse_vuln_block, lines 544-619: the body of the loop over block_lines
BlockLine(b, line) ==
    LET stripped == Stripped(line)
        risk == << "Risk", " ", "factor:" >>
        date == << "Disclosure", " ", "date:" >>
    IN  IF b.returned THEN b
        ELSE IF StateMatch(line)
        THEN [ b EXCEPT !.state = StateGroup(line), !.in_refs = FALSE ]
        ELSE IF stripped \in { << "VULNERABLE:" >>, << "LIKELY", " ", "VULNERABLE:" >> } THEN b
        ELSE IF HasSub(stripped, << "NOT", " ", "VULNERABLE" >>)
        THEN [ b EXCEPT !.returned = TRUE ]
        ELSE IF Negative(stripped) THEN b
        ELSE IF stripped = << "References:" >> THEN [ b EXCEPT !.in_refs = TRUE ]
        ELSE IF b.in_refs /\ IsUrl(stripped) THEN [ b EXCEPT !.refs = Append(@, stripped) ]
        ELSE IF ~b.in_refs /\ Cves(line.body) # << >>
        THEN [ b EXCEPT !.cves = @ \o Cves(line.body) ]
        ELSE IF StartsWith(stripped, << "IDs:" >>) THEN b
        ELSE IF StartsWith(stripped, risk) /\ Len(stripped) > Len(risk)
        THEN [ b EXCEPT !.risk = Strip(SubSeq(stripped, Len(risk) + 1, Len(stripped))),
                        !.in_refs = FALSE ]
        ELSE IF StartsWith(stripped, date) /\ Len(stripped) > Len(date)
        THEN [ b EXCEPT !.disclosure = Strip(SubSeq(stripped, Len(date) + 1, Len(stripped))),
                        !.in_refs = FALSE ]
        ELSE IF \/ StartsWith(stripped, << "State:" >>) \/ StartsWith(stripped, risk)
                \/ StartsWith(stripped, date) \/ StartsWith(stripped, << "References:" >>)
        THEN b
        ELSE LET info == IF stripped # << >> /\ ~Noise(stripped)
                         THEN Append(b.info_lines, stripped) ELSE b.info_lines
             IN  IF ~b.got_title /\ stripped # << >>
                 THEN [ b EXCEPT !.info_lines = info, !.title = stripped, !.got_title = TRUE ]
                 ELSE IF b.got_title /\ ~b.in_refs /\ stripped # << >>
                 THEN [ b EXCEPT !.info_lines = info, !.desc_lines = Append(@, stripped) ]
                 ELSE [ b EXCEPT !.info_lines = info ]

RECURSIVE BlockLoop(_, _)
\* The loop of _parse_vuln_block over block_lines
BlockLoop(b, block_lines) ==
    IF block_lines = << >> THEN b
    ELSE BlockLoop(BlockLine(b, Head(block_lines)), Tail(block_lines))

\* _parse_vuln_block: the findings it returns, none for None
parse_vuln_block(script_name, block_lines, port, service) ==
    LET b == BlockLoop(BlockStart, block_lines)
    IN  IF b.returned THEN << >>
        ELSE IF b.state # << >>
        THEN << Finding(port, service, script_name,
                        IF script_name \in DOMAIN SCRIPT_TITLES
                        THEN << SCRIPT_TITLES[script_name] >> ELSE b.title,
                        b.state, Range(b.cves), b.risk, Join(b.desc_lines),
                        b.disclosure, b.refs) >>
        ELSE IF b.info_lines # << >> /\ ~IsHttpVuln(script_name)
        THEN << Finding(port, service, script_name,
                        IF script_name \in DOMAIN SCRIPT_TITLES
                        THEN << SCRIPT_TITLES[script_name] >> ELSE << script_name >>,
                        << "FOUND" >>, Range(b.cves),
                        IF b.risk # << >> THEN b.risk ELSE << "Informational" >>,
                        Join(SubSeq(b.info_lines, 1, IF Len(b.info_lines) < 10
                                                     THEN Len(b.info_lines) ELSE 10)),
                        << >>, b.refs) >>
        ELSE << >>

\* An entry of the vulnerabilities set: f"{friendly} ({cve_str})", or friendly
\* alone where the CVE set is empty
Label(friendly, cves) == [ title |-> friendly, cves |-> cves ]

\* self._SCRIPT_TITLES.get(current_script, current_script)
Friendly(script) == IF script \in DOMAIN SCRIPT_TITLES THEN SCRIPT_TITLES[script] ELSE script

\* parse_vulnerabilities, lines 362-375: save_block; label_scripts is history:
\* the scripts whose block added a label
save_block(p) ==
    IF p.current_script = None THEN p
    ELSE IF p.is_vulnerable
    THEN [ p EXCEPT !.vulnerabilities = @ \cup { Label(Friendly(p.current_script), p.current_cves) },
                    !.label_scripts = @ \cup { p.current_script } ]
    ELSE IF p.has_output /\ ~IsHttpVuln(p.current_script)
    THEN [ p EXCEPT !.vulnerabilities = @ \cup { Label(Friendly(p.current_script), { }) },
                    !.label_scripts = @ \cup { p.current_script } ]
    ELSE p

\* re.match(r'^\|[_ ]?\s', line)
ContentLine(line) == line.lead \in { "|", "|_" } /\ line.body # << >> /\ IsWs(line.body[1])

\* re.match(r'^\|?\s+References:', line)
RefsLine(line) ==
    /\ line.lead \in { "|", "" }
    /\ Len(line.body) >= 2
    /\ IsWs(line.body[1])
    /\ line.body[2] = "References:"

\* 'Host script results:' in line
HostScriptLine(line) == HasSub(line.body, << "Host", " ", "script", " ", "results:" >>)

\* The locals of parse_vulnerabilities (lines 355-360) and of
\* parse_vulnerability_details (lines 420-425) before their loops
ParserStart ==
    [ pc |-> "labels", i |-> 1,
      vulnerabilities |-> { }, current_script |-> None, current_cves |-> { },
      is_vulnerable |-> FALSE, has_output |-> FALSE, in_refs |-> FALSE,
      label_scripts |-> { },
      findings |-> << >>, current_port |-> None, current_service |-> None ]

\* parse_vulnerabilities, lines 377-409: one line of the loop
LabelsLine ==
    /\ parser.pc = "labels"
    /\ parser.i <= Len(scan_result)
    /\ LET line == scan_result[parser.i]
           inline == Strip(line.body)
           saved == save_block(parser)
           has == parser.has_output
                  \/ ( parser.current_script # None /\ ContentLine(line)
                       /\ Stripped(line) # << >> /\ ~Negative(Stripped(line)) )
           refs == parser.in_refs \/ RefsLine(line)
           vuln == parser.is_vulnerable \/ StateMatch(line)
       IN  parser' =
             IF IsHeader(line)
             THEN [ saved EXCEPT !.current_script = line.script, !.current_cves = { },
                                 !.is_vulnerable = FALSE,
                                 !.has_output = (inline # << >> /\ ~Negative(inline)),
                                 !.in_refs = FALSE, !.i = @ + 1 ]
             ELSE [ parser EXCEPT !.has_output = has, !.in_refs = refs, !.is_vulnerable = vuln,
                                  !.current_cves = IF vuln /\ ~refs
                                                   THEN @ \cup Range(Cves(line.body)) ELSE @,
                                  !.i = @ + 1 ]
    /\ UNCHANGED << attack_order, policy, now, data, store, pc, pass_no, pos,
                    any_action_executed, inflight, orchestrator_should_exit,
                    failed_scans_count, semaphore, sa_idx, idle_end_time, passes,
                    pass_log, last_result, streak, init_status, cmp, nmap,
                    scan_result, merge, summary >>

\* parse_vulnerabilities, lines 411-413: the last save_block and the return;
\* parse_vulnerability_details begins on the same text
LabelsEnd ==
    /\ parser.pc = "labels"
    /\ parser.i > Len(scan_result)
    /\ parser' = [ save_block(parser) EXCEPT !.pc = "details", !.i = 1 ]
    /\ UNCHANGED << attack_order, policy, now, data, store, pc, pass_no, pos,
                    any_action_executed, inflight, orchestrator_should_exit,
                    failed_scans_count, semaphore, sa_idx, idle_end_time, passes,
                    pass_log, last_result, streak, init_status, cmp, nmap,
                    scan_result, merge, summary >>

RECURSIVE BlockEnd(_, _)
\* parse_vulnerability_details, lines 462-471: the index at which the
\* collection of block lines stops
BlockEnd(lines, k) ==
    IF k > Len(lines) THEN k
    ELSE IF lines[k].port # None \/ HostScriptLine(lines[k]) THEN k
    ELSE IF IsHeader(lines[k]) THEN k
    ELSE IF lines[k].lead \notin { "|", "|_" } THEN k
    ELSE BlockEnd(lines, k + 1)

\* parse_vulnerability_details, lines 426-479: one iteration of the outer loop
DetailsStep ==
    /\ parser.pc = "details"
    /\ parser.i <= Len(scan_result)
    /\ LET line == scan_result[parser.i]
           inline_text == Strip(line.body)
           end == BlockEnd(scan_result, parser.i + 1)
       IN  parser' =
             IF line.port # None
             THEN [ parser EXCEPT !.current_port = line.port,
                                  !.current_service = line.service, !.i = @ + 1 ]
             ELSE IF HostScriptLine(line)
             THEN [ parser EXCEPT !.current_port = "host", !.current_service = None,
                                  !.i = @ + 1 ]
             ELSE IF IsHeader(line)
             THEN IF line.lead = "|_" /\ inline_text # << >>
                  THEN [ parser EXCEPT
                           !.findings = IF ~Negative(inline_text)
                                        THEN Append(@, make_info_finding(line.script, inline_text,
                                                 parser.current_port, parser.current_service))
                                        ELSE @,
                           !.i = @ + 1 ]
                  ELSE [ parser EXCEPT
                           !.findings = @ \o parse_vuln_block(line.script,
                                                 SubSeq(scan_result, parser.i + 1, end - 1),
                                                 parser.current_port, parser.current_service),
                           !.i = end ]
             ELSE [ parser EXCEPT !.i = @ + 1 ]
    /\ UNCHANGED << attack_order, policy, now, data, store, pc, pass_no, pos,
                    any_action_executed, inflight, orchestrator_should_exit,
                    failed_scans_count, semaphore, sa_idx, idle_end_time, passes,
                    pass_log, last_result, streak, init_status, cmp, nmap,
                    scan_result, merge, summary >>

\* parse_vulnerability_details, line 481: return findings
DetailsEnd ==
    /\ parser.pc = "details"
    /\ parser.i > Len(scan_result)
    /\ parser' = [ parser EXCEPT !.pc = "done" ]
    /\ UNCHANGED << attack_order, policy, now, data, store, pc, pass_no, pos,
                    any_action_executed, inflight, orchestrator_should_exit,
                    failed_scans_count, semaphore, sa_idx, idle_end_time, passes,
                    pass_log, last_result, streak, init_status, cmp, nmap,
                    scan_result, merge, summary >>

\* Lines of nmap output: two block headers, a single-line result and a negative
\* one, block lines with a state, with NOT VULNERABLE, with finding text, with
\* a negative result and with a CVE id, and a port line
TextLines == {
    Line("|", "http-vuln-cve2012-1823", << >>),
    Line("|", "http-git", << >>),
    Line("|_", "http-trace", << "TRACE" >>),
    Line("|_", "http-csrf", << "Couldn't", " ", "find", " ", "any" >>),
    Line("|", None, << "  ", "State:", " ", "VULNERABLE" >>),
    Line("|", None, << "  ", "State:", " ", "LIKELY", "  ", "VULNERABLE" >>),
    Line("|", None, << "  ", "State:", " ", "NOT", " ", "VULNERABLE" >>),
    Line("|", None, << "  ", "10.0.0.5:80/.git/" >>),
    Line("|_", None, << "  ", "No", " ", "issues", " ", "found" >>),
    Line("|", None, << "  ", "IDs:", "  ", "CVE:CVE-2012-1823" >>),
    PortLine("80/tcp", "http") }

\* The texts of at most MaxLines lines
Texts == UNION { [ 1 .. n -> TextLines ] : n \in 0 .. MaxLines }

\* The two parsers applied to a text, as scan_vulnerabilities applies them to
\* the stdout of a port (lines 244-253)
InitText ==
    /\ InitOf(SubSeq(HostRows, 1, 1), OrderPolicies, { Empty })
    /\ attack_order = "spread"
    /\ policy.retry_success_actions
    /\ nmap = Idle
    /\ scan_result \in Texts
    /\ parser = ParserStart
    /\ NoMerge

NextText ==
    \/ LabelsLine
    \/ LabelsEnd
    \/ DetailsStep
    \/ DetailsEnd

SpecText == InitText /\ [][NextText]_vars

\* Block lines of a structured vulnerability report: the state, the ids, the
\* references marker, a citation URL that holds a CVE id, and the risk factor
RefLines == {
    Line("|", None, << "  ", "State:", " ", "VULNERABLE" >>),
    Line("|", None, << "  ", "IDs:", "  ", "CVE:CVE-2012-1823" >>),
    Line("|", None, << "  ", "References:" >>),
    Line("|", None, << "  ", "https://cve.mitre.org/cgi-bin/cvename.cgi?name=CVE-2012-1823" >>),
    Line("|", None, << "  ", "Risk", " ", "factor:", " ", "High" >>) }

\* One script block: a header followed by at most MaxLines block lines
RefTexts ==
    { << Line("|", "http-vuln-cve2012-1823", << >>) >> \o body :
        body \in UNION { [ 1 .. n -> RefLines ] : n \in 0 .. MaxLines } }

\* The two parsers applied to one script block
InitRefs ==
    /\ InitOf(SubSeq(HostRows, 1, 1), OrderPolicies, { Empty })
    /\ attack_order = "spread"
    /\ policy.retry_success_actions
    /\ nmap = Idle
    /\ scan_result \in RefTexts
    /\ parser = ParserStart
    /\ NoMerge

SpecRefs == InitRefs /\ [][NextText]_vars

--------------------------------------------------------------------------
(* The cross-port merge of scan_vulnerabilities.  The port and the service of
   a finding are strings, held as sequences of pieces, so that the substring
   tests of the merge are computed on the text: 80/tcp stands inside 8080/tcp
   and http inside http-proxy. *)

\* The fields of a finding that the merge reads and writes, and its CVE ids
Detail(script, port, service, cves) ==
    [ script |-> script, port |-> port, service |-> service, cves |-> cves ]

\* Findings of two scripts, each reported on two ports
DetailInputs == {
    Detail("http-git", << "8", "0", "8", "0", "/tcp" >>, << "http", "-proxy" >>, { }),
    Detail("http-git", << "8", "0", "/tcp" >>, << "http" >>, { }),
    Detail("ssl-dh-params", << "4", "6", "5", "/tcp" >>, << "ssl/smtp" >>, { }),
    Detail("ssl-dh-params", << "9", "9", "3", "/tcp" >>, << "ssl/imap" >>, { "CVE-2015-4000" }) }

\* all_details before the merge: at most MaxDetails findings, each port once
DetailLists ==
    { d \in UNION { [ 1 .. n -> DetailInputs ] : n \in 0 .. MaxDetails } :
        \A i, j \in DOMAIN d : i # j => d[i] # d[j] }

\* f"{existing}, {new}"
CommaJoin(existing, new) == existing \o << ",", " " >> \o new

\* scan_vulnerabilities, lines 256-257: the locals of the merge; input is
\* history: all_details as the port loop left it
MergeStart(details) ==
    [ pc |-> "merge", k |-> 1, input |-> details, all_details |-> details,
      merged_details |-> << >>, seen_scripts |-> << >> ]

\* scan_vulnerabilities, lines 259-273: the body of the loop over all_details
MergeFinding(m, finding) ==
    LET key == finding.script
    IN  IF key \in DOMAIN m.seen_scripts
        THEN LET at == m.seen_scripts[key]
                 existing == m.merged_details[at]
             IN  IF finding.port # << >> /\ ~HasSub(existing.port, finding.port)
                 THEN [ m EXCEPT !.merged_details[at].port = CommaJoin(existing.port, finding.port),
                                 !.merged_details[at].service =
                                     IF finding.service # << >>
                                        /\ ~HasSub(existing.service, finding.service)
                                     THEN CommaJoin(existing.service, finding.service)
                                     ELSE @ ]
                 ELSE m
        ELSE [ m EXCEPT !.seen_scripts = @ @@ (key :> (Len(m.merged_details) + 1)),
                        !.merged_details = Append(@, finding) ]

\* scan_vulnerabilities, lines 258-273: one iteration of the merge loop
MergeStep ==
    /\ merge.pc = "merge"
    /\ merge.k <= Len(merge.all_details)
    /\ merge' = [ MergeFinding(merge, merge.all_details[merge.k]) EXCEPT !.k = @ + 1 ]
    /\ UNCHANGED << attack_order, policy, now, data, store, pc, pass_no, pos,
                    any_action_executed, inflight, orchestrator_should_exit,
                    failed_scans_count, semaphore, sa_idx, idle_end_time, passes,
                    pass_log, last_result, streak, init_status, cmp, nmap,
                    scan_result, parser, summary >>

\* scan_vulnerabilities, line 274: all_details = merged_details
MergeEnd ==
    /\ merge.pc = "merge"
    /\ merge.k > Len(merge.all_details)
    /\ merge' = [ merge EXCEPT !.pc = "done", !.all_details = merge.merged_details ]
    /\ UNCHANGED << attack_order, policy, now, data, store, pc, pass_no, pos,
                    any_action_executed, inflight, orchestrator_should_exit,
                    failed_scans_count, semaphore, sa_idx, idle_end_time, passes,
                    pass_log, last_result, streak, init_status, cmp, nmap,
                    scan_result, parser, summary >>

\* The merge applied to the findings of a host
InitMerge ==
    /\ InitOf(SubSeq(HostRows, 1, 1), OrderPolicies, { Empty })
    /\ attack_order = "spread"
    /\ policy.retry_success_actions
    /\ nmap = Idle
    /\ NoText
    /\ summary = [ pc |-> "none" ]
    /\ \E d \in DetailLists : merge = MergeStart(d)

NextMerge ==
    \/ MergeStep
    \/ MergeEnd

SpecMerge == InitMerge /\ [][NextMerge]_vars

--------------------------------------------------------------------------
(* The summary file and update_summary_file.  summary.file is the file: header
   says whether the header line is there (a file opened for writing is empty
   until the rows are written), rows are its data rows, and torn says that
   the text of a longer file follows the text that was written last.  summary.w holds, per
   thread that runs execute, where its call of update_summary_file stands and
   its locals; summary.queue holds the calls still to be made and summary.done
   (history) the calls that returned. *)

\* The arguments of update_summary_file
Update(ip, hostname, mac, port, vulnerabilities) ==
    [ ip |-> ip, hostname |-> hostname, mac |-> mac, port |-> port,
      vulnerabilities |-> vulnerabilities ]

\* What csv.DictWriter writes for a value and csv.DictReader reads back: the
\* string itself, the empty string for None
CsvCell(v) == IF v = None THEN "" ELSE v

\* new_row, line 128, as the file holds it
SummaryRow(u) ==
    [ IP |-> CsvCell(u.ip), Hostname |-> CsvCell(u.hostname), MAC |-> CsvCell(u.mac),
      Port |-> CsvCell(u.port), Vulnerabilities |-> CsvCell(u.vulnerabilities) ]

\* A key made of the IP alone
SummaryKey_IpOnly(row) == << row.IP >>

\* line 134: key = (row.get("IP", ""), row.get("MAC Address", ""))
SummaryKey(row) == << row.IP, row.MAC >>

RECURSIVE KeyOrder(_, _)
\* The keys of the dict seen, in the order of their first insertion
KeyOrder(rows, seen) ==
    IF rows = << >> THEN << >>
    ELSE IF SummaryKey(Head(rows)) \in seen THEN KeyOrder(Tail(rows), seen)
    ELSE << SummaryKey(Head(rows)) >>
         \o KeyOrder(Tail(rows), seen \cup { SummaryKey(Head(rows)) })

\* lines 132-136: the values of seen: per key the last row that has it
Dedupe(rows) ==
    LET order == KeyOrder(rows, { })
    IN  [ i \in DOMAIN order |->
            rows[CHOOSE k \in DOMAIN rows :
                    /\ SummaryKey(rows[k]) = order[i]
                    /\ \A j \in DOMAIN rows : SummaryKey(rows[j]) = order[i] => j <= k] ]

\* create_summary_file: the header line and no rows
NewFile == [ header |-> TRUE, rows |-> << >>, torn |-> FALSE ]

\* The length of a cell as csv.writer writes it, for the strings of the model
CellBytes(v) ==
    CASE v \in { "10.0.0.5", "10.0.0.6" } -> 8
      [] v \in { "nas", "cam" } -> 3
      [] v \in { "aa:aa", "bb:bb", "cc:cc" } -> 5
      [] v = "22,80" -> 7
      [] v \in { "22", "80" } -> 2
      [] v = "Git Repository Exposed" -> 22
      [] v = "TRACE Method Enabled" -> 20
      [] v = "torn" -> 4
      [] OTHER -> 0

\* The length of the line of a row: its cells, four commas and the line end
RowBytes(row) ==
    CellBytes(row.IP) + CellBytes(row.Hostname) + CellBytes(row.MAC)
    + CellBytes(row.Port) + CellBytes(row.Vulnerabilities) + 6

RECURSIVE RowsBytes(_)
\* The length of the lines of the rows
RowsBytes(rows) == IF rows = << >> THEN 0 ELSE RowBytes(Head(rows)) + RowsBytes(Tail(rows))

\* What the reader makes of the text left over from a longer file
TornRow == [ IP |-> "torn", Hostname |-> "", MAC |-> "", Port |-> "", Vulnerabilities |-> "" ]

\* list(csv.DictReader(f)): no rows from a file without a header line
ReadRows(file) == IF file.header THEN file.rows ELSE << >>

\* A thread between two calls
Waiting == [ pc |-> "idle", rows |-> << >>, update |-> None ]

\* lines 121-125 and 128-136: a thread takes the next call, reads the file,
\* appends the new row and removes the duplicates
SummaryRead(w) ==
    /\ summary.pc = "run"
    /\ summary.w[w].pc = "idle"
    /\ summary.queue # << >>
    /\ LET u == Head(summary.queue)
       IN  summary' = [ summary EXCEPT
                          !.queue = Tail(@),
                          !.w[w] = [ pc |-> "read", update |-> u,
                                     rows |-> Dedupe(Append(ReadRows(summary.file),
                                                            SummaryRow(u))) ] ]
    /\ UNCHANGED << attack_order, policy, now, data, store, pc, pass_no, pos,
                    any_action_executed, inflight, orchestrator_should_exit,
                    failed_scans_count, semaphore, sa_idx, idle_end_time, passes,
                    pass_log, last_result, streak, init_status, cmp, nmap,
                    scan_result, parser, merge >>

\* line 139: open(self.summary_file, 'w') empties the file
SummaryOpen(w) ==
    /\ summary.pc = "run"
    /\ summary.w[w].pc = "read"
    /\ summary' = [ summary EXCEPT !.file = [ header |-> FALSE, rows |-> << >>, torn |-> FALSE ],
                                   !.w[w].pc = "opened" ]
    /\ UNCHANGED << attack_order, policy, now, data, store, pc, pass_no, pos,
                    any_action_executed, inflight, orchestrator_should_exit,
                    failed_scans_count, semaphore, sa_idx, idle_end_time, passes,
                    pass_log, last_result, streak, init_status, cmp, nmap,
                    scan_result, parser, merge >>

\* lines 140-142: the header and the rows are written from the start of the
\* file and the file is closed; where another thread has written a longer text
\* since this one opened the file, the end of that text stays behind
SummaryWrite(w) ==
    /\ summary.pc = "run"
    /\ summary.w[w].pc = "opened"
    /\ summary' = [ summary EXCEPT !.file =
                                       IF /\ summary.file.header
                                          /\ RowsBytes(summary.w[w].rows) < RowsBytes(summary.file.rows)
                                       THEN [ header |-> TRUE, torn |-> TRUE,
                                              rows |-> Append(summary.w[w].rows, TornRow) ]
                                       ELSE [ header |-> TRUE, torn |-> FALSE,
                                              rows |-> summary.w[w].rows ],
                                   !.done = Append(@, summary.w[w].update),
                                   !.w[w] = Waiting ]
    /\ UNCHANGED << attack_order, policy, now, data, store, pc, pass_no, pos,
                    any_action_executed, inflight, orchestrator_should_exit,
                    failed_scans_count, semaphore, sa_idx, idle_end_time, passes,
                    pass_log, last_result, streak, init_status, cmp, nmap,
                    scan_result, parser, merge >>

\* Calls of update_summary_file: two for the same host, one for another host
\* and one for the same IP under another MAC address
Updates == {
    Update("10.0.0.5", "nas", "aa:aa", "22,80", "Git Repository Exposed"),
    Update("10.0.0.5", "", "aa:aa", "80", ""),
    Update("10.0.0.6", "cam", "bb:bb", "80", "TRACE Method Enabled"),
    Update("10.0.0.5", "nas", "cc:cc", "22", "") }

\* The summary with the calls of queue to make by the threads of workers
SummaryStart(queue, workers) ==
    [ pc |-> "run", file |-> NewFile, queue |-> queue, done |-> << >>,
      w |-> [ t \in workers |-> Waiting ] ]

InitSummaryOf(queues, workers) ==
    /\ InitOf(SubSeq(HostRows, 1, 1), OrderPolicies, { Empty })
    /\ attack_order = "spread"
    /\ policy.retry_success_actions
    /\ nmap = Idle
    /\ NoText
    /\ merge = [ pc |-> "none" ]
    /\ \E q \in queues : summary = SummaryStart(q, workers)

\* One scan after the other, as the orchestrator calls execute: at most
\* MaxUpdates calls of update_summary_file
InitUpsert ==
    InitSummaryOf(UNION { [ 1 .. n -> Updates ] : n \in 0 .. MaxUpdates }, { 1 })

NextSummary ==
    \/ \E w \in DOMAIN summary.w : SummaryRead(w)
    \/ \E w \in DOMAIN summary.w : SummaryOpen(w)
    \/ \E w \in DOMAIN summary.w : SummaryWrite(w)

SpecUpsert == InitUpsert /\ [][NextSummary]_vars

\* __main__, lines 741-744: one call of execute per alive row, so calls with
\* different keys, run by the two threads of the pool
InitPool ==
    InitSummaryOf({ q \in UNION { [ 1 .. n -> Updates ] : n \in 0 .. MaxUpdates } :
                      \A i, j \in DOMAIN q :
                          i # j => SummaryKey(SummaryRow(q[i])) # SummaryKey(SummaryRow(q[j])) },
                  { 1, 2 })

SpecPool == InitPool /\ [][NextSummary]_vars

--------------------------------------------------------------------------
(* One cycle of run under each attack order, from the same table, retry
   configuration, clock and action outcomes.  cmp holds the outcome of
   action.execute per action key and one run of the cycle per attack order;
   no exit is requested and the network scan leaves the table as it is. *)

CmpRun(order, rows) ==
    [ order |-> order, rows |-> rows, pass_no |-> 1, pos |-> 1, any |-> FALSE,
      log |-> { }, state |-> "pass" ]

\* run, lines 663-690: the end of a pass procedure
CmpPassOver(r) ==
    IF r.pass_no = 1 /\ ~r.any
    THEN [ r EXCEPT !.pass_no = 2, !.pos = 1 ]
    ELSE [ r EXCEPT !.state = "done" ]

\* execute_action on the pair of an action slot
CmpAction(r, slot, outcome, t) ==
    LET row == r.rows[slot.h]
        action == Actions[slot.a]
        key == action.action_name
        gate == IF row.alive # "1" THEN "skip" ELSE ExecuteActionGate(action, row, t)
        result == outcome[key]
    IN  IF gate = "run"
        THEN [ r EXCEPT !.rows = SetStatus(r.rows, slot.h, key,
                                           OutcomeStatus(result, row.st[key], t)),
                        !.any = (r.any \/ result = "success"),
                        !.log = r.log \cup { << slot.h, key >> },
                        !.pos = r.pos + 1 ]
        ELSE IF gate = "raise" THEN [ r EXCEPT !.state = "crashed" ]
        ELSE [ r EXCEPT !.pos = r.pos + 1 ]

\* _run_vuln_scan_single on the row of a vuln slot
CmpVuln(r, slot, outcome, t) ==
    LET row == r.rows[slot.h]
        gate == IF row.alive # "1" THEN "skip" ELSE VulnScanGate(row, t)
        result == outcome[VulnKey]
    IN  IF gate = "run"
        THEN [ r EXCEPT !.rows = SetStatus(r.rows, slot.h, VulnKey,
                                           VulnOutcomeStatus(result, row.st[VulnKey], t)),
                        !.any = (r.any \/ (slot.counts /\ result # "exception")),
                        !.log = r.log \cup { << slot.h, VulnKey >> },
                        !.pos = r.pos + 1 ]
        ELSE [ r EXCEPT !.pos = r.pos + 1 ]

\* The head of the host loop
CmpBegin(r, slots, slot) ==
    LET row == r.rows[slot.h]
    IN  [ r EXCEPT !.pos = IF row.alive # "1" THEN NextRow(slots, r.pos)
                           ELSE IF r.order = "spread" /\ host_fully_exhausted(row)
                                THEN NextRow(slots, r.pos)
                           ELSE r.pos + 1 ]

CmpSlotStep(r, outcome, t) ==
    LET slots == PassSlots(r.order, r.pass_no, Len(r.rows))
    IN  IF r.pos > Len(slots) THEN CmpPassOver(r)
        ELSE LET slot == slots[r.pos]
             IN  IF slot.kind = "begin" THEN CmpBegin(r, slots, slot)
                 ELSE IF slot.kind = "action" THEN CmpAction(r, slot, outcome, t)
                 ELSE IF slot.kind = "vuln" THEN CmpVuln(r, slot, outcome, t)
                 ELSE [ r EXCEPT !.pos = r.pos + 1 ]

CmpParentStatuses ==
    { Empty, SuccessStatus(0), NoCredsStatus(0), FailedStatus(1, 0), LegacyFailedStatus(0) }

CmpVulnStatuses == { Empty, FailedStatus(1, 0) }

CmpOutcomes ==
    { f \in [ Keys -> Results ] :
        /\ f[Actions[2].action_name] \in { "success", "failed" }
        /\ f[VulnKey] \in { "success", "failed" }
        /\ f[StandaloneActions[1].action_name] = "success" }

InitCmp ==
    /\ attack_order = "spread"
    /\ policy \in Policies
    /\ init_status \in CmpParentStatuses
    /\ now \in { 0, 1 }
    /\ \E v \in CmpVulnStatuses : data = SetStatus(InitialRows(HostRows, init_status), 1, VulnKey, v)
    /\ store = data
    /\ pc = "cmp"
    /\ pass_no = 1
    /\ pos = 1
    /\ any_action_executed = FALSE
    /\ inflight = NoCall
    /\ orchestrator_should_exit = FALSE
    /\ failed_scans_count = 0
    /\ semaphore = SemaphoreCapacity
    /\ sa_idx = 1
    /\ idle_end_time = 0
    /\ passes = 0
    /\ pass_log = << >>
    /\ last_result = None
    /\ streak = [ h \in 1 .. (Len(HostRows) + 1) |-> [ k \in Keys |-> 0 ] ]
    /\ nmap = Atomic
    /\ NoText /\ NoMerge
    /\ \E f \in CmpOutcomes :
        cmp = [ outcome |-> f, runs |-> [ s \in Strategies |-> CmpRun(s, data) ] ]

CmpStep(order) ==
    /\ cmp.runs[order].state = "pass"
    /\ cmp' = [ cmp EXCEPT !.runs[order] = CmpSlotStep(@, cmp.outcome, now) ]
    /\ UNCHANGED << attack_order, policy, now, data, store, pc, pass_no, pos,
                    any_action_executed, inflight, orchestrator_should_exit,
                    failed_scans_count, semaphore, sa_idx, idle_end_time, passes,
                    pass_log, last_result, streak, init_status, nmap,
                    scan_result, parser, merge, summary >>

CmpSpread == pc = "cmp" /\ CmpStep("spread")

CmpPerHost == pc = "cmp" /\ cmp.runs["spread"].state # "pass" /\ CmpStep("per_host")

CmpPerPhase == pc = "cmp" /\ cmp.runs["per_host"].state # "pass" /\ CmpStep("per_phase")

NextCmp == CmpSpread \/ CmpPerHost \/ CmpPerPhase

SpecCmp == InitCmp /\ [][NextCmp]_vars

--------------------------------------------------------------------------
(* Reading a status the scheduler has written *)

\* success_<ts>, no_creds_<ts>, failed_<n>_<ts>
IsSuccess(s) == Len(s) = 3 /\ s[1] = "success" /\ strptime_ok(s[2], s[3])
IsNoCreds(s) == Len(s) = 4 /\ s[1] = "no" /\ s[2] = "creds" /\ strptime_ok(s[3], s[4])
IsFailed(s) == Len(s) = 4 /\ s[1] = "failed" /\ IsInt(s[2]) /\ strptime_ok(s[3], s[4])
FailCount(s) == IntOf(s[2])
TimeOf(s) == IntOf(s[Len(s)])

Pairs == { hk \in (DOMAIN data) \X Keys : TRUE }
StatusOf(h, k) == data[h].st[k]
Running(h, k) == inflight # NoCall /\ inflight.h = h /\ inflight.key = k
RunningStatus == data[inflight.h].st[inflight.key]

\* The slot of the current pass that visits pair (h, k), 0 if there is none
SlotOf(h, k) ==
    LET hits == { i \in DOMAIN Slots :
                    /\ Slots[i].h = h
                    /\ \/ Slots[i].kind = "vuln" /\ k = VulnKey
                       \/ Slots[i].kind = "action" /\ Actions[Slots[i].a].action_name = k }
    IN  IF hits = { } THEN 0 ELSE CHOOSE i \in hits : TRUE

Logged(h, k) == \E i \in DOMAIN pass_log : pass_log[i] = Entry(h, k, pass_no)

\* Pair (h, k) was visited in the current pass and its execution was declined
Declined(h, k) ==
    /\ pc = "pass"
    /\ ~orchestrator_should_exit
    /\ SlotOf(h, k) # 0
    /\ pos > SlotOf(h, k)
    /\ ~Logged(h, k)

--------------------------------------------------------------------------
(* C1: once the status of a pair is no_creds_<ts>, no step changes that status
   and no step starts an execution of the pair, under every retry configuration *)
C1_NoCredsAbsorbing ==
    [][ \A hk \in Pairs :
          IsNoCreds(StatusOf(hk[1], hk[2]))
          => /\ data'[hk[1]].st[hk[2]] = data[hk[1]].st[hk[2]]
             /\ ~(inflight'.h = hk[1] /\ inflight'.key = hk[2]) ]_vars

\* a pair with no_creds was visited again, with every retry enabled, and declined
C1_Witness ==
    /\ policy.retry_success_actions /\ policy.retry_failed_actions
    /\ IsNoCreds(StatusOf(1, "SSHBruteforce"))
    /\ passes >= 2
    /\ Declined(1, "SSHBruteforce")

(* C3: an execution is never in progress for a pair whose status is
   failed_<n>_<ts> with n >= max_failed_retries *)
C3_MaxRetriesFinal ==
    inflight # NoCall /\ IsFailed(RunningStatus)
    => FailCount(RunningStatus) < policy.max_failed_retries

\* a pair at the retry limit was visited after the retry delay, with retries
\* enabled, and declined
C3_Witness ==
    \E k \in { "SSHBruteforce", VulnKey } :
        /\ policy.retry_failed_actions
        /\ IsFailed(StatusOf(1, k))
        /\ FailCount(StatusOf(1, k)) >= policy.max_failed_retries
        /\ now >= TimeOf(StatusOf(1, k)) + policy.failed_retry_delay
        /\ now > TimeOf(StatusOf(1, k))
        /\ Declined(1, k)

(* C4: with retry_success_actions off, no step changes a status success_<ts>
   and no step starts an execution of its pair *)
C4_SuccessFinal ==
    [][ \A hk \in Pairs :
          ~policy.retry_success_actions /\ IsSuccess(StatusOf(hk[1], hk[2]))
          => /\ data'[hk[1]].st[hk[2]] = data[hk[1]].st[hk[2]]
             /\ ~(inflight'.h = hk[1] /\ inflight'.key = hk[2]) ]_vars

\* a successful pair was visited after the success delay and declined
C4_Witness ==
    \E k \in { "SSHBruteforce", VulnKey } :
        /\ ~policy.retry_success_actions
        /\ IsSuccess(StatusOf(1, k))
        /\ now >= TimeOf(StatusOf(1, k)) + policy.success_retry_delay
        /\ Declined(1, k)

\* The status the outcome mapping of the specification gives
ClaimedStatus(result, prev_status, t) ==
    IF result = "success" THEN SuccessStatus(t)
    ELSE IF result = "no_creds_found" THEN NoCredsStatus(t)
    ELSE FailedStatus((IF IsFailed(prev_status) THEN FailCount(prev_status) ELSE 0) + 1, t)

(* C5: when a call returns, the status recorded is success_<ts> for success,
   no_creds_<ts> for no_creds_found, and failed_<n+1>_<ts> otherwise, n being
   the count of the previous status if that was failed_<n>_<ts> and 0 if not *)
C5_OutcomeMapping ==
    [][ inflight # NoCall /\ inflight' = NoCall
        => data'[inflight.h].st[inflight.key]
             = ClaimedStatus(last_result', RunningStatus, now) ]_vars

\* Pair (h, k) started the run with an empty status
StartedEmpty(h, k) == init_status = Empty \/ h # 1 \/ k # Actions[1].action_name

(* C6: for a pair that started empty, with max_failed_retries >= 1: the run of
   consecutive failed executions, the one in progress included, is at most
   max_failed_retries (at most 1 with retry_failed_actions off), and so is the
   recorded failure count *)
C6_BoundedRetries ==
    \A hk \in Pairs :
        LET h == hk[1]
            k == hk[2]
            n == streak[h][k] + (IF Running(h, k) /\ ~IsSuccess(StatusOf(h, k)) THEN 1 ELSE 0)
        IN  StartedEmpty(h, k) /\ policy.max_failed_retries >= 1
            => /\ n <= policy.max_failed_retries
               /\ ~policy.retry_failed_actions => n <= 1
               /\ IsFailed(StatusOf(h, k)) => FailCount(StatusOf(h, k)) <= policy.max_failed_retries

\* a pair has failed max_failed_retries = 2 times in a row
C6_Witness ==
    \E k \in Keys :
        /\ policy.max_failed_retries = 2
        /\ streak[1][k] = 2
        /\ IsFailed(StatusOf(1, k)) /\ FailCount(StatusOf(1, k)) = 2

(* C7: while an execution is in progress for a pair whose status is
   failed_<n>_<ts>, retry_failed_actions is on and the execution started at
   ts + failed_retry_delay or later; likewise for success_<ts>,
   retry_success_actions and success_retry_delay *)
C7_RetryDelay ==
    inflight # NoCall
    => /\ IsFailed(RunningStatus)
          => /\ policy.retry_failed_actions
             /\ inflight.start - TimeOf(RunningStatus) >= policy.failed_retry_delay
       /\ IsSuccess(RunningStatus)
          => /\ policy.retry_success_actions
             /\ inflight.start - TimeOf(RunningStatus) >= policy.success_retry_delay

\* a failed pair is being retried under a retry delay of 1
C7_Witness ==
    /\ inflight # NoCall
    /\ IsFailed(RunningStatus)
    /\ policy.failed_retry_delay = 1
    /\ inflight.start = TimeOf(RunningStatus) + 1

\* The persisted status of the row with this MAC address
StoredStatus(mac, k) ==
    IF \E i \in DOMAIN store : store[i].mac = mac
    THEN store[CHOOSE i \in DOMAIN store : store[i].mac = mac].st[k]
    ELSE Empty

(* C8: while an execution is in progress (from its start on), the persisted
   statuses equal the in-memory statuses: every earlier outcome was written *)
C8_WriteThrough ==
    inflight # NoCall
    => \A hk \in Pairs : StoredStatus(data[hk[1]].mac, hk[2]) = StatusOf(hk[1], hk[2])

\* a call starts after an earlier call ended in an exception
C8_Witness ==
    /\ inflight # NoCall
    /\ last_result = "exception"
    /\ \E hk \in Pairs : StatusOf(hk[1], hk[2]) # Empty /\ ~Running(hk[1], hk[2])

(* C2: while a child action is executing on a host, the status of its parent
   action on that same host contains success *)
C2_ChildAfterParent ==
    \A i \in DOMAIN Actions :
        inflight.kind = "action" /\ inflight.key = Actions[i].action_name
        /\ Actions[i].b_parent_action # None
        => Contains(data[inflight.h].st[Actions[i].b_parent_action], "success")

\* a child executes on the second host while the parent has not succeeded on
\* the first
C2_Witness ==
    /\ inflight.kind = "action"
    /\ inflight.key = "StealFilesSSH"
    /\ inflight.h = 2
    /\ IsSuccess(StatusOf(2, "SSHBruteforce"))
    /\ IsFailed(StatusOf(1, "SSHBruteforce"))
    /\ StatusOf(1, "StealFilesSSH") = Empty

\* The cycles of all three attack orders are over
CmpDone == \A s \in Strategies : cmp.runs[s].state = "done"

(* C9: from the same table (legacy statuses included), retry configuration,
   clock and outcomes, the cycles of spread, per_host and per_phase execute the
   same set of (host, action) pairs, vuln scans included *)
C9_SameExecutions ==
    CmpDone => \A s1, s2 \in Strategies : cmp.runs[s1].log = cmp.runs[s2].log

\* The place of a key in the phases of a host: parents, children, vuln scan
PhaseRank(k) ==
    IF k = VulnKey THEN 3
    ELSE IF \E i \in DOMAIN Actions : Actions[i].action_name = k /\ IsParent(i) THEN 1
    ELSE 2

(* C10: under per_host the executions of a pass are ordered by host, and on a
   host parents come before children and children before the vuln scan; when
   an execution on a host has started, the vuln scan step of every earlier host
   is over *)
C10_PerHostOrder ==
    attack_order = "per_host"
    => /\ \A i, j \in DOMAIN pass_log :
            i < j /\ pass_log[i].pass = pass_log[j].pass /\ pass_log[j].pass \in { 1, 2 }
            => \/ pass_log[i].h < pass_log[j].h
               \/ /\ pass_log[i].h = pass_log[j].h
                  /\ PhaseRank(pass_log[i].key) <= PhaseRank(pass_log[j].key)
       /\ \A i \in DOMAIN pass_log : \A h \in 1 .. (pass_log[i].h - 1) :
            pc = "pass" /\ pass_log[i].pass = pass_no
            => pos > SlotOf(h, VulnKey) /\ ~Running(h, VulnKey)

\* a per_host pass has run parent, child and vuln scan on the first host and
\* is executing on the second
C10_Witness ==
    /\ attack_order = "per_host"
    /\ Logged(1, "SSHBruteforce") /\ Logged(1, "StealFilesSSH") /\ Logged(1, VulnKey)
    /\ Running(2, "SSHBruteforce")

\* The keys of the host phases: parent actions, child actions, vuln scan
HostKeys == { Actions[i].action_name : i \in DOMAIN Actions } \cup { VulnKey }

(* C11: under per_phase the executions of a pass are ordered by phase (parents,
   children, vuln scans), and while an execution of a phase is in progress the
   steps of every earlier phase are over on all hosts *)
C11_PerPhaseOrder ==
    attack_order = "per_phase"
    => /\ \A i, j \in DOMAIN pass_log :
            i < j /\ pass_log[i].pass = pass_log[j].pass /\ pass_log[j].pass \in { 1, 2 }
            => PhaseRank(pass_log[i].key) <= PhaseRank(pass_log[j].key)
       /\ pc = "pass" /\ inflight # NoCall
          => \A h \in DOMAIN data : \A k \in HostKeys :
                PhaseRank(k) < PhaseRank(inflight.key)
                => SlotOf(h, k) # 0 /\ SlotOf(h, k) < pos

\* a per_phase pass has run the parent on both hosts and the child on the
\* second host, and is scanning the first host
C11_Witness ==
    /\ attack_order = "per_phase"
    /\ Logged(1, "SSHBruteforce") /\ Logged(2, "SSHBruteforce")
    /\ Logged(2, "StealFilesSSH")
    /\ Running(1, VulnKey)

\* The executions of pass p (1, 2) or of the standalone loop in the log
InPhase(i, p) == pass_log[i].pass = p

\* The end of a pass procedure with no exit requested
PassDone == pc = "pass" /\ inflight = NoCall /\ pos > Len(Slots) /\ ~orchestrator_should_exit

(* C12: every spread pass, first or re-run, executes host by host in store
   order, parents before children, each pair at most once, vuln scans after
   all host actions; and when the pass is over the vuln scan has been run on
   every host that is eligible for it *)
C12_SpreadOrder ==
    attack_order = "spread"
    => /\ \A i, j \in DOMAIN pass_log :
            i < j /\ pass_log[i].pass = pass_log[j].pass /\ pass_log[j].pass \in { 1, 2 }
            => /\ << pass_log[i].h, pass_log[i].key >> # << pass_log[j].h, pass_log[j].key >>
               /\ pass_log[i].key = VulnKey => pass_log[j].key = VulnKey
               /\ pass_log[i].key = VulnKey \/ pass_log[j].key # VulnKey
                  => \/ pass_log[i].h < pass_log[j].h
                     \/ /\ pass_log[i].h = pass_log[j].h
                        /\ PhaseRank(pass_log[i].key) <= PhaseRank(pass_log[j].key)
       /\ PassDone
          => \A h \in DOMAIN data :
                data[h].mac # "STANDALONE" /\ VulnScanGate(data[h], now) = "run"
                => Logged(h, VulnKey)

(* C13: a standalone action is started only in a cycle in which no host action
   and no vuln scan was executed *)
C13_StandaloneOnlyIdle ==
    \A i, j \in DOMAIN pass_log : InPhase(i, StandalonePhase) => InPhase(j, StandalonePhase)

\* Executions in flight: the holders of the semaphore and a vuln scan
InFlight == (SemaphoreCapacity - semaphore) + (IF inflight.kind = "vuln" THEN 1 ELSE 0)

(* C14: the executions in flight are at most the semaphore capacity; the
   semaphore is held exactly by the host action or standalone action in
   progress *)
C14_ConcurrencyBound ==
    /\ InFlight <= SemaphoreCapacity
    /\ semaphore >= 0
    /\ SemaphoreCapacity - semaphore = (IF inflight.kind \in { "action", "standalone" } THEN 1 ELSE 0)

\* a host action is in progress in the second pass, after earlier executions
C14_Witness ==
    /\ inflight.kind = "action"
    /\ semaphore = SemaphoreCapacity - 1
    /\ passes = 2
    /\ last_result # None

(* C17: the idle sleep is entered only when neither the re-run pass nor the
   standalone loop executed anything *)
C17_SleepOnlyIdle ==
    pc = "sleep" => \A i \in DOMAIN pass_log : InPhase(i, 1)

\* A step in which a call returns
Returns == inflight # NoCall /\ inflight' = NoCall

(* C18: a call that ends in an exception is recorded as failed_<n+1>_<ts> on
   its pair, n being the count of the previous status if that was
   failed_<n>_<ts> and 0 if not, and the loop goes on with the next step; run
   is terminated only by an exception raised outside a call *)
C18_ExceptionContained ==
    [][ /\ Returns /\ last_result' = "exception"
           => /\ data'[inflight.h].st[inflight.key]
                   = FailedStatus((IF IsFailed(RunningStatus) THEN FailCount(RunningStatus) ELSE 0) + 1, now)
              /\ pc' = pc
              /\ pc = "pass" => pos' = pos + 1
        /\ pc # "crashed" /\ pc' = "crashed" => inflight = NoCall /\ inflight' = NoCall ]_vars

\* The rows but for the status entry of pair (h, k)
Frame(rows, h, k) == [ i \in DOMAIN rows |-> [ rows[i] EXCEPT !.st[k] = IF i = h THEN Empty ELSE @ ] ]

(* C19: a host-action step that declines to run changes no row and writes
   nothing to the store, and neither does the start of an execution; the
   return of an execution on (h, a) changes at most the status entry of a on h *)
C19_HostActionFrame ==
    [][ /\ InPass /\ Slots[pos].kind = "action" => data' = data /\ store' = store
        /\ inflight.kind = "action" /\ Returns
           => Frame(data', inflight.h, inflight.key) = Frame(data, inflight.h, inflight.key) ]_vars

\* on the first host the parent was executed and failed and the child was
\* declined, while the second host holds statuses of its own
C19_Witness ==
    /\ Logged(1, "SSHBruteforce")
    /\ IsFailed(StatusOf(1, "SSHBruteforce"))
    /\ Declined(1, "StealFilesSSH")
    /\ StatusOf(1, "StealFilesSSH") = Empty
    /\ pass_no = 2
    /\ IsSuccess(StatusOf(2, "SSHBruteforce"))

(* C20: in spread a host is skipped as exhausted only if execute_action would
   decline every action whose port is open on it, now and at every later time *)
C20_ExhaustionSound ==
    attack_order = "spread" /\ InPass /\ Slots[pos].kind = "begin"
    /\ ~orchestrator_should_exit
    => LET row == data[Slots[pos].h]
       IN  row.alive = "1" /\ host_fully_exhausted(row)
           => \A i \in DOMAIN Actions :
                \A t \in now .. (now + policy.success_retry_delay + policy.failed_retry_delay + 1) :
                    InPorts(Actions[i].port, row.ports)
                    => ExecuteActionGate(Actions[i], row, t) # "run"

\* A step that starts a host action, a vuln scan or a standalone action
CallStarts == inflight = NoCall /\ inflight' # NoCall

\* A step that starts a run of nmap scripts: a scan batch of an HTTP port, or
\* the scan of another port
RunStarts == ~nmap.busy /\ nmap'.busy

\* A step that starts the network rescan of the idle branch
RescanStarts == pc # "scanning" /\ pc' = "scanning"

(* C15: with the exit flag set no host action, vuln scan, scan batch,
   standalone action or network rescan is started, every start being taken
   with the flag read clear after the call before it returned; the call in
   flight is not dropped: it stays in flight until it returns and its outcome
   is recorded *)
C15_CancellationSafe ==
    [][ /\ orchestrator_should_exit => ~(CallStarts \/ RunStarts \/ RescanStarts)
        /\ CallStarts \/ RunStarts => inflight' # NoCall /\ ~nmap.busy
        /\ orchestrator_should_exit /\ inflight # NoCall
           => \/ inflight' = inflight
              \/ /\ inflight' = NoCall
                 /\ ~nmap.busy
                 /\ data'[inflight.h].st[inflight.key] # Empty
                 /\ TimeOf(data'[inflight.h].st[inflight.key]) = now ]_vars

\* the flag was set while the scan of the HTTP port was under way: the batches
\* started before have returned and been counted, the batch loop was left
\* before its last batch, and the vuln-scan call is about to return
C15_Witness ==
    /\ orchestrator_should_exit
    /\ inflight.kind = "vuln"
    /\ nmap.state = "done"
    /\ nmap.batch \in 2 .. Len(HTTP_VULN_BATCHES)
    /\ nmap.batches_succeeded = nmap.batch - 1
    /\ nmap.ports_succeeded = 2

(* C16: once the exit flag is set, run terminates, wherever in the cycle it
   was set; an idle sleep is left by the first tick that finds the flag set,
   without sleeping again *)
C16_ShutdownLive ==
    /\ orchestrator_should_exit ~> (pc = "done")
    /\ [][ pc = "sleep" /\ orchestrator_should_exit => pc' = "loop_top" /\ now' = now ]_vars

\* run has ended after an idle sleep that was left before idle_end_time
C16_Witness ==
    /\ pc = "done"
    /\ orchestrator_should_exit
    /\ idle_end_time > now

\* A legacy failure status failed_<ts>
IsLegacy(s) == Len(s) = 3 /\ s[1] = "failed" /\ strptime_ok(s[2], s[3])

\* The row with the status of key k replaced
WithStatus(row, k, status) == [ row EXCEPT !.st[k] = status ]

(* C21: a pair whose status is the legacy failed_<ts> is handled as if it
   held failed_1_<ts>: the eligibility check and the host-exhaustion test give
   the same answer for both, and a further failure records failed_2_<ts> *)
C21_LegacyAsFirstFailure ==
    \A h \in DOMAIN data : \A i \in DOMAIN Actions :
        LET k == Actions[i].action_name
            s == data[h].st[k]
            asFirst == WithStatus(data[h], k, FailedStatus(1, TimeOf(s)))
        IN  IsLegacy(s)
            => /\ ExecuteActionGate(Actions[i], data[h], now)
                    = ExecuteActionGate(Actions[i], asFirst, now)
               /\ ActionExhausted(Actions[i], data[h]) = ActionExhausted(Actions[i], asFirst)
               /\ OutcomeStatus("failed", s, now) = FailedStatus(2, now)

\* The status is none of the well-formed ones and not the legacy failure
IsMalformed(s) == s # Empty /\ ~IsSuccess(s) /\ ~IsNoCreds(s) /\ ~IsFailed(s) /\ ~IsLegacy(s)

(* C22: whatever the stored status, malformed ones included, the eligibility
   checks of host actions, standalone actions and vuln scans return without
   raising, so run never ends on a status; a malformed status counts as a
   first failure: it is not retried where one failure exhausts the retries,
   and a further failure records failed_2_<ts> *)
C22_DefensiveParse ==
    /\ pc # "crashed"
    /\ \A h \in DOMAIN data : \A k \in Keys :
        LET s == data[h].st[k]
        IN  /\ \A i \in DOMAIN Actions :
                Actions[i].action_name = k => ExecuteActionGate(Actions[i], data[h], now) # "raise"
            /\ \A i \in DOMAIN StandaloneActions :
                StandaloneActions[i].action_name = k
                => StandaloneGate(StandaloneActions[i], data[h], now) # "raise"
            /\ k = VulnKey => VulnScanGate(data[h], now) # "raise"
            /\ IsMalformed(s) /\ policy.max_failed_retries = 1
               => \A i \in DOMAIN Actions :
                    Actions[i].action_name = k => ExecuteActionGate(Actions[i], data[h], now) # "run"
            /\ IsMalformed(s) => OutcomeStatus("failed", s, now) = FailedStatus(2, now)

\* The runs of nmap scripts the scan of one port consists of
PortRuns(port) ==
    IF port \in HTTP_PORTS
    THEN [ b \in 1 .. Len(HTTP_VULN_BATCHES) |-> Output(port, HTTP_VULN_BATCHES[b]) ]
    ELSE << Output(port, "vuln") >>

RECURSIVE PlanRuns(_)
\* The runs of the scan of a port list, in order
PlanRuns(ports) == IF ports = << >> THEN << >>
                   ELSE PortRuns(Head(ports)) \o PlanRuns(Tail(ports))

\* The scan plan of the vuln-scan call in flight
Plan == PlanRuns(ScanPorts(data[inflight.h].ports))

\* A step in which the vuln-scan call in flight returns
VulnReturns == inflight.kind = "vuln" /\ Returns

(* C23: a vuln scan is reported failed exactly when no port of its plan
   returned: with at least one port returned it is reported success, recorded
   as success_<ts>, and its text is the combined text of the ports that
   returned *)
C23_PartialSuccess ==
    [][ VulnReturns
        => /\ last_result' = (IF nmap.returned = << >> THEN "failed" ELSE "success")
           /\ IsSuccess(data'[inflight.h].st[VulnKey]) <=> nmap.ports_succeeded > 0
           /\ nmap.ports_succeeded > 0 <=> nmap.returned # << >>
           /\ nmap.combined_result = nmap.returned ]_vars

\* the scan is over with the SSH port timed out and the HTTP port returned in
\* part: the call is about to report success
C23_Witness ==
    /\ inflight.kind = "vuln"
    /\ nmap.state = "done"
    /\ ~orchestrator_should_exit
    /\ nmap.ports_succeeded = 1
    /\ Len(nmap.started) = 7
    /\ Len(nmap.returned) \in 1 .. 5
    /\ nmap.returned[1][1] = "80"
    /\ ExecuteResults = { "success" }

(* C24: the vuln-scan status of a host is set to failed_<n+1>_<ts> only when
   every run of its scan plan was started and none returned; a scan cut short
   by the exit flag does not mark the host failed *)
C24_FailedOnlyAfterFullPlan ==
    [][ VulnReturns /\ IsFailed(data'[inflight.h].st[VulnKey])
        => nmap.started = Plan /\ nmap.returned = << >> ]_vars

(* C25: a run that times out or errors does not end the scan: the runs are
   started in the order of the plan, with the exit flag unset the scan ends
   only after every run of the plan was started, and the combined text is the
   in-order concatenation of the outputs of the runs that returned *)
C25_TimeoutContinues ==
    inflight.kind = "vuln" /\ nmap # Atomic
    => /\ Len(nmap.started) <= Len(Plan)
       /\ nmap.started = SubSeq(Plan, 1, Len(nmap.started))
       /\ nmap.state = "done" /\ ~orchestrator_should_exit => nmap.started = Plan
       /\ nmap.state = "done" => nmap.combined_result = nmap.returned
       /\ \A i, j \in DOMAIN nmap.returned :
            i < j => \E k, l \in DOMAIN nmap.started :
                        k < l /\ nmap.started[k] = nmap.returned[i]
                              /\ nmap.started[l] = nmap.returned[j]

\* the first run timed out and the scan went on through the whole plan, of
\* which some later runs returned
C25_Witness ==
    /\ inflight.kind = "vuln"
    /\ nmap.state = "done"
    /\ ~orchestrator_should_exit
    /\ nmap.started = Plan
    /\ nmap.returned # << >>
    /\ nmap.returned[1] # nmap.started[1]
    /\ Len(nmap.returned) < Len(nmap.started) - 1

SlowlorisBatch == "Slowloris check"

(* C26: the Slowloris batch of a host:port is started only after every other
   batch of that host:port was started and has returned or timed out *)
C26_SlowlorisLast ==
    [][ RunStarts /\ nmap'.started[Len(nmap'.started)][2] = SlowlorisBatch
        => /\ ~nmap.busy
           /\ \A b \in DOMAIN HTTP_VULN_BATCHES :
                HTTP_VULN_BATCHES[b] # SlowlorisBatch
                => \E j \in DOMAIN nmap.started :
                     nmap.started[j]
                       = Output(nmap'.started[Len(nmap'.started)][1], HTTP_VULN_BATCHES[b]) ]_vars

\* the Slowloris batch is running after all the batches before it timed out
C26_Witness ==
    /\ nmap.busy
    /\ nmap.started[Len(nmap.started)][2] = SlowlorisBatch
    /\ nmap.batches_succeeded = 0
    /\ nmap.batch = Len(HTTP_VULN_BATCHES)

RECURSIVE Without(_, _)
\* The sequence with every occurrence of p taken out
Without(seq, p) == IF seq = << >> THEN << >>
                   ELSE IF Head(seq) = p THEN Without(Tail(seq), p)
                   ELSE << Head(seq) >> \o Without(Tail(seq), p)

(* C27: 139 is taken out of the scan plan of a host exactly when its port
   list holds both 445 and 139; the other ports stay, in their order; 139 is
   never scanned on a host with 445 open and is scanned on a host without *)
C27_RedundantPortElision ==
    \A h \in DOMAIN data :
        LET ports == data[h].ports
            both == InPorts("445", ports) /\ InPorts("139", ports)
        IN  /\ ScanPorts(ports) = (IF both THEN Without(ports, "139") ELSE ports)
            /\ inflight.kind = "vuln" /\ inflight.h = h
               => /\ InPorts("445", ports)
                     => \A i \in DOMAIN nmap.started : nmap.started[i][1] # "139"
                  /\ ~both /\ nmap.state = "done" /\ ~orchestrator_should_exit
                     => \A i \in DOMAIN ports :
                          \E j \in DOMAIN nmap.started : nmap.started[j][1] = ports[i]

\* the scan of a host with ports 80, 445 and 139 is over: 80 and 445 were
\* scanned, 139 was not
C27_Witness ==
    /\ inflight.kind = "vuln"
    /\ data[inflight.h].ports = << "80", "445", "139" >>
    /\ nmap.state = "done"
    /\ ~orchestrator_should_exit
    /\ Len(nmap.started) = 7
    /\ nmap.started[7] = Output("445", "vuln")

\* The header lines of script sc in the text
BlocksOf(sc) == { i \in DOMAIN scan_result : IsHeader(scan_result[i]) /\ scan_result[i].script = sc }

\* The lines of the script block whose header is line i: none for a
\* single-line result, the lines up to the next header or port line otherwise
BlockOf(i) ==
    IF scan_result[i].lead = "|_" /\ Strip(scan_result[i].body) # << >> THEN << >>
    ELSE SubSeq(scan_result, i + 1, BlockEnd(scan_result, i + 1) - 1)

\* The scripts with a header in the text
TextScripts == { scan_result[i].script : i \in { j \in DOMAIN scan_result : IsHeader(scan_result[j]) } }

\* Line i is the header of a block that holds a NOT VULNERABLE line
HasMarker(i) ==
    \E k \in DOMAIN BlockOf(i) : HasSub(Stripped(BlockOf(i)[k]), << "NOT", " ", "VULNERABLE" >>)

\* Line i is the header of a block that holds a negative-result line, or is a
\* single-line result with a negative text
HasNegative(i) ==
    \/ \E k \in DOMAIN BlockOf(i) : Negative(Stripped(BlockOf(i)[k]))
    \/ Negative(Strip(scan_result[i].body))

ParsedScripts == { parser.findings[i].script : i \in DOMAIN parser.findings }

(* C28: a script whose every block in the text holds a NOT VULNERABLE line has
   no finding, whatever else its blocks hold and wherever the line stands *)
C28_NotVulnerableNoFinding ==
    parser.pc = "done"
    => \A sc \in TextScripts :
         (\A i \in BlocksOf(sc) : HasMarker(i)) => sc \notin ParsedScripts

\* a block with State: VULNERABLE followed by State: NOT VULNERABLE was parsed
\* and gave no finding
C28_Witness ==
    /\ parser.pc = "done"
    /\ Len(scan_result) = 3
    /\ scan_result[1] = Line("|", "http-vuln-cve2012-1823", << >>)
    /\ StateMatch(scan_result[2])
    /\ HasMarker(1)
    /\ parser.findings = << >>

\* The text is laid out as nmap prints it: a line led by "|_" closes its
\* block, so a header, a port line or the end of the text follows it
WellFormed ==
    \A i \in DOMAIN scan_result :
        scan_result[i].lead = "|_" /\ i < Len(scan_result)
        => IsHeader(scan_result[i + 1]) \/ scan_result[i + 1].port # None

(* C29: in a text laid out as nmap prints it, a script whose every block holds
   a negative-result line has no finding and adds no label, even when its
   blocks hold other lines *)
C29_NegativeDiscardsBlock ==
    parser.pc = "done" /\ WellFormed
    => \A sc \in TextScripts :
         (\A i \in BlocksOf(sc) : HasNegative(i))
         => sc \notin ParsedScripts /\ sc \notin parser.label_scripts

(* C30: the state of every finding is VULNERABLE, LIKELY VULNERABLE or FOUND *)
C30_FindingState ==
    \A i \in DOMAIN parser.findings :
        parser.findings[i].state
            \in { << "VULNERABLE" >>, << "LIKELY", " ", "VULNERABLE" >>, << "FOUND" >> }

\* The lines of the text that hold the references marker
RefMarks == { k \in DOMAIN scan_result : Stripped(scan_result[k]) = << "References:" >> }

\* The CVE ids on the lines of the text that stand before every references marker
CvesBeforeRefs ==
    UNION { Range(Cves(scan_result[k].body)) :
              k \in { j \in DOMAIN scan_result : \A r \in RefMarks : j < r } }

(* C31: in a text of one script block, every CVE id of a finding and of a
   label stands on a line before the references marker, whatever lines follow
   the marker *)
C31_NoCveAfterReferences ==
    parser.pc = "done"
    => /\ \A i \in DOMAIN parser.findings : parser.findings[i].cves \subseteq CvesBeforeRefs
       /\ \A label \in parser.vulnerabilities : label.cves \subseteq CvesBeforeRefs

\* The half of C31 that is about the label of the summary
C31_LabelPart ==
    parser.pc = "done"
    => \A label \in parser.vulnerabilities : label.cves \subseteq CvesBeforeRefs

\* The scripts of the findings handed to the merge
InputScripts == { merge.input[k].script : k \in DOMAIN merge.input }

RECURSIVE FirstSeen(_, _)
\* The distinct values of a sequence, in order of first appearance
FirstSeen(seq, seen) ==
    IF seq = << >> THEN << >>
    ELSE IF Head(seq) \in seen THEN FirstSeen(Tail(seq), seen)
    ELSE << Head(seq) >> \o FirstSeen(Tail(seq), seen \cup { Head(seq) })

RECURSIVE CommaJoinAll(_)
\* The values of a sequence joined with ", "
CommaJoinAll(seq) ==
    IF seq = << >> THEN << >>
    ELSE IF Len(seq) = 1 THEN seq[1]
    ELSE CommaJoin(seq[1], CommaJoinAll(Tail(seq)))

RECURSIVE InputsOf(_, _)
\* The findings of script sc among the findings seq, in order
InputsOf(seq, sc) ==
    IF seq = << >> THEN << >>
    ELSE IF Head(seq).script = sc THEN << Head(seq) >> \o InputsOf(Tail(seq), sc)
    ELSE InputsOf(Tail(seq), sc)

\* The ports (field "port") or services (field "service") on which script sc
\* gave a finding, joined in order of first appearance
JoinedField(sc, field) ==
    LET fs == InputsOf(merge.input, sc)
    IN  CommaJoinAll(FirstSeen([ k \in DOMAIN fs |-> fs[k][field] ], { }))

(* C32: after the merge there is exactly one record per script of the input,
   its port names every distinct port on which the script gave a finding,
   joined with ", " in order of first appearance, and its service likewise *)
C32_CrossPortMerge ==
    merge.pc = "done"
    => \A sc \in InputScripts :
         \E j \in DOMAIN merge.all_details :
            /\ merge.all_details[j].script = sc
            /\ \A i \in DOMAIN merge.all_details : merge.all_details[i].script = sc => i = j
            /\ merge.all_details[j].port = JoinedField(sc, "port")
            /\ merge.all_details[j].service = JoinedField(sc, "service")

\* The half of C32 that is about the number of records
C32_OneRecordPerScript ==
    merge.pc = "done"
    => \A sc \in InputScripts :
         \E j \in DOMAIN merge.all_details :
            /\ merge.all_details[j].script = sc
            /\ \A i \in DOMAIN merge.all_details : merge.all_details[i].script = sc => i = j

(* C33: after the merge every CVE id of an input finding is in the CVE set of
   the record of its script *)
C33_MergeKeepsCves ==
    merge.pc = "done"
    => \A k \in DOMAIN merge.input :
         \E j \in DOMAIN merge.all_details :
            /\ merge.all_details[j].script = merge.input[k].script
            /\ merge.input[k].cves \subseteq merge.all_details[j].cves

\* No call of update_summary_file is in progress or still to be made
SummaryQuiet ==
    /\ summary.pc = "run"
    /\ summary.queue = << >>
    /\ \A w \in DOMAIN summary.w : summary.w[w].pc = "idle"

\* The file has its header line, no text left over from a longer file and no
\* two rows with the same (ip, mac)
WellFormedFile ==
    /\ summary.file.header
    /\ ~summary.file.torn
    /\ \A i, j \in DOMAIN summary.file.rows :
          (summary.file.rows[i].IP = summary.file.rows[j].IP
           /\ summary.file.rows[i].MAC = summary.file.rows[j].MAC) => i = j

\* The calls that returned with the (ip, mac) of call u
SameKeyDone(u) ==
    { k \in DOMAIN summary.done : summary.done[k].ip = u.ip /\ summary.done[k].mac = u.mac }

\* The last call that returned with the (ip, mac) of call u
LastDone(u) ==
    summary.done[CHOOSE k \in SameKeyDone(u) : \A j \in SameKeyDone(u) : j <= k]

(* C34: whenever no update of the summary is in progress, the file holds one
   row per (ip, mac) of the updates made, no other row, and the row of a key
   carries the hostname, ports and labels of the most recent update of that
   key *)
C34_SummaryUpsert ==
    (summary.pc = "run" /\ \A w \in DOMAIN summary.w : summary.w[w].pc = "idle")
    => /\ WellFormedFile
       /\ \A k \in DOMAIN summary.done :
            \E i \in DOMAIN summary.file.rows :
               LET row == summary.file.rows[i]
                   u == LastDone(summary.done[k])
               IN  /\ row.IP = u.ip /\ row.MAC = u.mac
                   /\ row.Hostname = u.hostname
                   /\ row.Port = u.port
                   /\ row.Vulnerabilities = u.vulnerabilities
       /\ \A i \in DOMAIN summary.file.rows :
            \E k \in DOMAIN summary.done :
               /\ summary.done[k].ip = summary.file.rows[i].IP
               /\ summary.done[k].mac = summary.file.rows[i].MAC

\* three updates were made, the last one replaced the row of the first and the
\* row of another key is still there
C34_Witness ==
    /\ SummaryQuiet
    /\ Len(summary.done) = 3
    /\ summary.done[1].mac = "aa:aa"
    /\ summary.done[2].mac = "bb:bb"
    /\ summary.done[3].mac = "aa:aa"
    /\ summary.done[3] # summary.done[1]
    /\ Len(summary.file.rows) = 2

(* C35: once the two threads of the pool have made all their updates, the
   file is well formed and holds a row for every host that was updated *)
C35_NoLostUpdate ==
    SummaryQuiet
    => /\ WellFormedFile
       /\ \A k \in DOMAIN summary.done :
            \E i \in DOMAIN summary.file.rows :
               /\ summary.file.rows[i].IP = summary.done[k].ip
               /\ summary.file.rows[i].MAC = summary.done[k].mac

(* C36: within the scan of a host no run of nmap scripts is started, against
   any port, once the Slowloris batch has been started in that scan *)
C36_NothingAfterSlowloris ==
    [][ RunStarts
        => \A j \in DOMAIN nmap.started : nmap.started[j][2] # SlowlorisBatch ]_vars

\* The declared port of the host action named key
PortOf(key) == (CHOOSE i \in DOMAIN Actions : Actions[i].action_name = key)

(* C37: a host action or a vuln scan is started only on a row with Alive = 1
   whose IP is in the target network and which is not the STANDALONE row, a
   host action only where the ports of the row hold its port; the table holds
   at most one STANDALONE row *)
C37_TargetAdmissible ==
    /\ [](Cardinality({ i \in DOMAIN data : data[i].mac = "STANDALONE" }) <= 1)
    /\ [][ CallStarts /\ inflight'.kind \in { "action", "vuln" }
           => LET row == data[inflight'.h]
              IN  /\ row.alive = "1"
                  /\ row.ip \in TargetNetwork
                  /\ row.mac # "STANDALONE"
                  /\ inflight'.kind = "action"
                     => InPorts(Actions[PortOf(inflight'.key)].port, row.ports) ]_vars

\* with the STANDALONE row in the table since the start of the run, the passes
\* have executed on the first row only and the standalone action is running on
\* the STANDALONE row
C37_Witness ==
    /\ init_status = Empty
    /\ Len(data) = 2
    /\ data[2].mac = "STANDALONE"
    /\ inflight.kind = "standalone"
    /\ inflight.h = 2
    /\ \E k \in DOMAIN pass_log : pass_log[k].key = VulnKey
    /\ \E k \in DOMAIN pass_log : pass_log[k].key = "SSHBruteforce"
    /\ \A k \in DOMAIN pass_log : pass_log[k].pass # StandalonePhase => pass_log[k].h = 1

\* a pass is over on a table whose second row is outside the target network,
\* with executions on the first row
C37_WitnessOutside ==
    /\ PassOver
    /\ Len(data) >= 2
    /\ data[2].ip = "192.168.9.9"
    /\ pass_log # << >>
    /\ \A k \in DOMAIN pass_log : pass_log[k].h = 1

(* C38: for a text laid out as nmap prints it, the scripts that add a label
   to the summary are the scripts of the findings *)
C38_ParsersAgree ==
    parser.pc = "done" /\ WellFormed => parser.label_scripts = ParsedScripts

\* The run of the cycle under attack order s took the idle branch: its first
\* pass reported that no action was executed
CmpIdle(s) == cmp.runs[s].pass_no = 2

(* C39: from the same table, retry configuration, clock and action outcomes,
   the cycles of the three attack orders either all take the idle branch or
   none does *)
C39_IdleSameUnderEveryOrder ==
    (pc = "cmp" /\ \A s \in Strategies : cmp.runs[s].state = "done")
    => \A s, t \in Strategies : CmpIdle(s) = CmpIdle(t)

\* The pair of row h and host action a is eligible: the row is alive and
\* execute_action would execute the action now
Eligible(h, a) ==
    /\ h \in DOMAIN data
    /\ data[h].alive = "1"
    /\ ExecuteActionGate(Actions[a], data[h], now) = "run"

\* The action a is being executed on row h
Executing(h, a) ==
    inflight.kind = "action" /\ inflight.h = h /\ inflight.key = Actions[a].action_name

\* A pass is about to visit the table
PassStarts == pc = "pass" /\ pos = 1 /\ inflight = NoCall

(* C40: a pair that is eligible when a pass starts is executed, unless it
   stops being eligible before it is visited or the exit flag is set *)
C40_EligibleIsExecuted ==
    \A a \in DOMAIN Actions :
        (PassStarts /\ Eligible(1, a))
            ~> (Executing(1, a) \/ ~Eligible(1, a) \/ orchestrator_should_exit)

==========================================================================
